---- MODULE Spec2Model ----
(***************************************************************************)
(* A model of pi-agent: the credential store (internal/token), the OAuth   *)
(* PKCE authenticator (internal/oauth), the conversation table             *)
(* (internal/store), the streaming transcoder (internal/chat) and the      *)
(* POST /chat handler (internal/server).                                   *)
(*                                                                         *)
(* Strings whose content matters (messages, fragments) are sequences of    *)
(* one-character strings, so that trimming and concatenation are computed. *)
(* Tokens and error kinds are opaque strings; "" is the empty string.      *)
(***************************************************************************)
EXTENDS Integers, Sequences, FiniteSets, TLC

(***************************************************************************)
(* Bounds of the model.                                                    *)
(***************************************************************************)
\* concurrent callers of Store.AccessToken
NumCallers == 2
\* seconds the clock may advance
MaxNow == 2
\* explicit Store.Save calls
MaxSaves == 1
\* characters in a string field of a credential written to the file
MaxStr == 1
\* POST /chat requests in flight
NumReq == 2
\* text fragments the upstream sends on one response body
MaxDeltas == 2
\* requests to /auth/callback during one Authenticate attempt
NumCallbacks == 2
\* lines of one upstream response body handed to the transcoder on its own
MaxWire == 4
\* polls of the device token endpoint during one AuthenticateDevice attempt
MaxPolls == 3

(***************************************************************************)
(* Program constants.                                                      *)
(***************************************************************************)
\* the early-refresh margin of Credentials.IsExpired, in seconds
RefreshMargin == 300
\* a provider lifetime well above the margin (an hour)
LongLife == 3600
\* the capacity of StreamCompletion's delta channel
DeltaBuf == 64

VARIABLES
    \* ---- token.Store ----
    cred,        \* Store.cred: NoCred (nil) or a Credentials record
    disk,        \* the credential file at Store.path
    now,         \* time.Now().Unix()
    mu,          \* Store.mu: 0 when free, else the holder
    tpc,         \* each AccessToken caller's position
    tret,        \* each caller's return value
    tsaw,        \* whether the token was in the expired window when the caller invoked
    refreshLog,  \* the refresh exchanges the provider has received, with their responses
    saveLog,     \* the outcomes of the durable writes, in order
    \* ---- store.DB ----
    db,          \* the rows of table messages
    nextId,      \* the AUTOINCREMENT sequence
    inserts,     \* the AddMessage calls that succeeded, in order: their arguments
    \* ---- server.handleChat, one instance per request ----
    pc,          \* the handler's position
    req,         \* the decoded request body
    tok,         \* what s.ts.AccessToken returned (accessToken, err)
    status,      \* the HTTP status written (0: none yet)
    out,         \* the SSE frames written downstream, in order
    acc,         \* fullResponse
    opened,      \* the StreamCompletion calls made: their arguments
    trace,       \* what the handler has called so far, in order
    cancelled,   \* r.Context(): "" while live, else the handler's position when it was cancelled
    \* ---- chat.StreamCompletion, the goroutine of each call ----
    ppc,         \* the goroutine's position
    deltaCh,     \* the buffered delta channel
    deltaClosed,
    errCh,       \* the buffered error channel
    errClosed,
    sent,        \* what the goroutine has put on its channels, in order
    \* ---- oauth.Authenticate ----
    apc,         \* the position of Authenticate
    aresult,     \* what Authenticate returns
    codeChan,    \* the buffered code channel
    errChan,     \* the buffered error channel
    cb,          \* the callback requests: parameters, handler position, response
    arrivals,    \* the callbacks in the order they arrived
    exchanges,   \* the token exchange requests sent, in order
    listening,   \* whether the callback listener accepts connections
    spc,         \* the position of the goroutine running server.Serve
    ctxDone,     \* "" until the caller's ctx is done, then the position Authenticate was at
    \* ---- chat.StreamCompletion on its own, either variant, with a consumer ----
    variant,     \* "legacy" (chat completions) or "responses"
    upstream,    \* the upstream's response: status, body text, body lines
    xpc,         \* the goroutine's position
    scanned,     \* the lines scanner.Scan() has returned
    requests,    \* the HTTP requests made
    xDeltaCh,    \* the buffered delta channel
    xDeltaClosed,
    xErrCh,      \* the buffered error channel
    xErrClosed,
    produced,    \* what the goroutine has put on its channels, in order
    received,    \* what the consumer has taken from the delta channel, in order
    \* ---- token.Store over the credential file ----
    pathFile,    \* the file at Store.path
    newStore,    \* the Store NewStore returned, Down when the process has none
    fileSaves,   \* the Save calls made: the credential, the file before, the error
    newStoreErr, \* the error of the last NewStore ("" for nil)
    loadErr,     \* the error Store.load returned inside the last NewStore
    \* ---- oauth.AuthenticateDevice ----
    dpc,         \* AuthenticateDevice's position
    polls,       \* the answers pollDeviceToken has received, in order
    deadline,    \* whether the deadline timer has fired
    devCtx,      \* whether the caller's ctx is done
    dresult      \* what AuthenticateDevice returned

tokenVars == <<cred, disk, now, mu, tpc, tret, tsaw, refreshLog, saveLog>>
dbVars == <<db, nextId, inserts>>
chatVars == <<pc, req, tok, status, out, acc, opened, trace, cancelled>>
streamVars == <<ppc, deltaCh, deltaClosed, errCh, errClosed, sent>>

authVars == <<apc, aresult, codeChan, errChan, cb, arrivals, exchanges, listening, spc,
              ctxDone>>

transVars == <<variant, upstream, xpc, scanned, requests, xDeltaCh, xDeltaClosed, xErrCh,
               xErrClosed, produced, received>>

fileVars == <<pathFile, newStore, fileSaves, newStoreErr, loadErr>>

deviceVars == <<dpc, polls, deadline, devCtx, dresult>>

vars == <<tokenVars, dbVars, chatVars, streamVars, authVars, transVars, fileVars,
          deviceVars>>

(***************************************************************************)
(* oauth.Credentials and the credential file.                              *)
(***************************************************************************)
NoCred == [none |-> TRUE]

Credentials(at, rt, exp, acct) ==
    [accessToken |-> at, refreshToken |-> rt, expiresAt |-> exp, accountId |-> acct]

NoFile == [file |-> "absent"]
TornFile == [file |-> "torn"]
FileOf(c) == [file |-> "json", cred |-> c]

\* Credentials.IsExpired: time.Now().Unix() > c.ExpiresAt-300
IsExpiredMillis(c, t) == t * 1000 > c.expiresAt - RefreshMargin
IsExpiredAtMargin(c, t) == t >= c.expiresAt - RefreshMargin
IsExpired(c, t) == t > c.expiresAt - RefreshMargin

(***************************************************************************)
(* The provider's answers to a refresh exchange (oauth.RefreshToken).      *)
(***************************************************************************)
TokenResponses ==
    [status : {200}, accessToken : {"at1", ""}, refreshToken : {"", "rt1"},
     expiresIn : {0, LongLife}, error : {""}, description : {<<>>}, malformed : {FALSE}]

Revoked == <<"r", "e", "v", "o", "k", "e", "d">>

\* a response that is not a token response: its status, the error and the
\* error_description of its body
Rejection(code, e, d) ==
    [status |-> code, accessToken |-> "", refreshToken |-> "", expiresIn |-> 0,
     error |-> e, description |-> d, malformed |-> FALSE]

ErrorResponses ==
    { Rejection(400, "invalid_grant", <<>>),
      Rejection(400, "invalid_request", <<"T", "o", "k", "e", "n", " ">> \o Revoked \o <<".">>),
      Rejection(401, "access_denied", <<"R", "e", "v", "o", "k", "e">>),
      Rejection(500, "server_error", <<>>),
      \* the request itself failed (transport error)
      Rejection(0, "transport", <<>>),
      \* a 200 body that does not decode
      [Rejection(200, "", <<>>) EXCEPT !.malformed = TRUE] }

ProviderResponses == TokenResponses \cup ErrorResponses

\* an exchange that was sent and is not answered yet
PendingResponse == Rejection(-1, "", <<>>)

\* strings.Contains
ContainsNever(s, sub) == FALSE
Contains(s, sub) ==
    \E i \in 1..(Len(s) - Len(sub) + 1) : SubSeq(s, i, i + Len(sub) - 1) = sub

ErrReauthenticate == "refresh token expired or revoked: please re-authenticate"

\* oauth.RefreshToken: the error it returns, "" for none
RefreshErrorNever(resp) == ""
RefreshError(resp) ==
    IF resp.status = 0 THEN "token refresh request"
    ELSE IF resp.status # 200
    THEN IF resp.error = "invalid_grant" \/ Contains(resp.description, Revoked)
         THEN ErrReauthenticate
         ELSE IF resp.description # <<>> THEN "token refresh: error - description"
         ELSE "token refresh: status"
    ELSE IF resp.malformed THEN "decoding token response"
    ELSE ""

\* Store.AccessToken lines 92-96: the credential after an accepted refresh
ApplyRefreshAlways(c, resp, t) ==
    [c EXCEPT !.accessToken = resp.accessToken,
              !.refreshToken = resp.refreshToken,
              !.expiresAt = t + resp.expiresIn]
ApplyRefresh(c, resp, t) ==
    [c EXCEPT !.accessToken = resp.accessToken,
              !.refreshToken = IF resp.refreshToken # "" THEN resp.refreshToken ELSE @,
              !.expiresAt = t + resp.expiresIn]

\* Store.save: os.WriteFile truncates and rewrites the file. It can succeed, fail
\* before touching the file, or fail after truncating it.
WriteOutcomes == {"ok", "failUntouched", "failTorn"}

WriteFile(old, c, outcome) ==
    CASE outcome = "ok" -> FileOf(c)
      [] outcome = "failUntouched" -> old
      [] OTHER -> TornFile

Ok(token) == [err |-> "", token |-> token]
Err(e) == [err |-> e, token |-> ""]
NoRet == [err |-> "pending", token |-> ""]

Callers == 1..NumCallers

(***************************************************************************)
(* Strings as sequences of characters.                                     *)
(***************************************************************************)
Whitespace == {" ", "\n"}

RECURSIVE TrimLeft(_)
TrimLeft(s) ==
    IF s # <<>> /\ Head(s) \in Whitespace THEN TrimLeft(Tail(s)) ELSE s

RECURSIVE TrimRight(_)
TrimRight(s) ==
    IF s # <<>> /\ s[Len(s)] \in Whitespace THEN TrimRight(SubSeq(s, 1, Len(s) - 1)) ELSE s

\* strings.TrimSpace
TrimSpaceNone(s) == s
TrimSpace(s) == TrimRight(TrimLeft(s))

(***************************************************************************)
(* store.DB: the table messages.                                           *)
(***************************************************************************)
Row(id, conv, role, content) ==
    [id |-> id, conv |-> conv, role |-> role, content |-> content]

\* DB.AddMessage, when the INSERT succeeds: the table and the sequence after it
InsertedWithCopy(table, id, conv, role, content) ==
    table \cup {Row(id, conv, role, content), Row(id, conv, "system", content)}
Inserted(table, id, conv, role, content) == table \cup {Row(id, conv, role, content)}

RECURSIVE SortById(_)
SortById(rows) ==
    IF rows = {} THEN <<>>
    ELSE LET m == CHOOSE x \in rows : \A y \in rows : x.id <= y.id
         IN <<m>> \o SortById(rows \ {m})

\* the arguments of one DB.AddMessage call
Arguments(conv, role, content) == [conv |-> conv, role |-> role, content |-> content]

\* DB.Messages: SELECT ... WHERE conversation_id = ? ORDER BY id
MessagesOfAll(table, conv) == SortById(table)
Messages(table, conv) == SortById({m \in table : m.conv = conv})

\* handleChat lines 108-111: the stored rows in the upstream message shape
RECURSIVE ToChatMessages(_)
ToChatMessages(rows) ==
    IF rows = <<>> THEN <<>>
    ELSE <<[role |-> Head(rows).role, content |-> Head(rows).content]>>
         \o ToChatMessages(Tail(rows))

(***************************************************************************)
(* The state of no request in flight (the token store on its own).         *)
(***************************************************************************)
Reqs == 1..NumReq

NoBody == [valid |-> FALSE, message |-> <<>>, conv |-> "-"]

CallbackIds == 1..NumCallbacks

NoCallback == [hpc |-> "none", state |-> "", error |-> "", code |-> "", at |-> "",
               failure |-> "", hresp |-> 0]
NoResult == [kind |-> "none", err |-> "", cred |-> NoCred]

\* no Authenticate attempt under way
AuthIdle ==
    /\ apc = "idle"
    /\ aresult = NoResult
    /\ codeChan = <<>>
    /\ errChan = <<>>
    /\ cb = [k \in CallbackIds |-> NoCallback]
    /\ arrivals = <<>>
    /\ exchanges = <<>>
    /\ listening = FALSE
    /\ spc = "none"
    /\ ctxDone = ""

NoResponse == [status |-> -1, text |-> "", lines |-> <<>>]

\* no transcoder run on its own
TransIdle ==
    /\ variant = "responses"
    /\ upstream = NoResponse
    /\ xpc = "none"
    /\ scanned = 0
    /\ requests = 0
    /\ xDeltaCh = <<>>
    /\ xDeltaClosed = FALSE
    /\ xErrCh = <<>>
    /\ xErrClosed = FALSE
    /\ produced = <<>>
    /\ received = <<>>

\* no Store over the credential file on its own
FileIdle ==
    /\ pathFile = [kind |-> "absent"]
    /\ newStore = [up |-> FALSE]
    /\ fileSaves = <<>>
    /\ newStoreErr = ""
    /\ loadErr = ""

\* AuthenticateDevice is not running
DeviceIdle ==
    /\ dpc = "none"
    /\ polls = <<>>
    /\ deadline = FALSE
    /\ devCtx = FALSE
    /\ dresult = NoResult

\* no AccessToken caller
TokenIdle ==
    /\ now = 0
    /\ mu = 0
    /\ tpc = [c \in Callers |-> "idle"]
    /\ tret = [c \in Callers |-> NoRet]
    /\ tsaw = [c \in Callers |-> FALSE]
    /\ refreshLog = <<>>
    /\ saveLog = <<>>

ChatIdle ==
    /\ db = {}
    /\ nextId = 1
    /\ inserts = <<>>
    /\ pc = [r \in Reqs |-> "start"]
    /\ req = [r \in Reqs |-> NoBody]
    /\ tok = [r \in Reqs |-> NoRet]
    /\ status = [r \in Reqs |-> 0]
    /\ out = [r \in Reqs |-> <<>>]
    /\ acc = [r \in Reqs |-> <<>>]
    /\ opened = [r \in Reqs |-> <<>>]
    /\ trace = [r \in Reqs |-> <<>>]
    /\ cancelled = [r \in Reqs |-> ""]
    /\ ppc = [r \in Reqs |-> "none"]
    /\ deltaCh = [r \in Reqs |-> <<>>]
    /\ deltaClosed = [r \in Reqs |-> FALSE]
    /\ errCh = [r \in Reqs |-> <<>>]
    /\ errClosed = [r \in Reqs |-> FALSE]
    /\ sent = [r \in Reqs |-> <<>>]

(***************************************************************************)
(* Store.AccessToken, one step per blocking point.                         *)
(***************************************************************************)
\* the call is made: the caller is about to take the mutex
Call(c) ==
    /\ tpc[c] = "idle"
    /\ tpc' = [tpc EXCEPT ![c] = "lock"]
    /\ tsaw' = [tsaw EXCEPT ![c] = cred # NoCred /\ IsExpired(cred, now)]
    /\ UNCHANGED <<cred, disk, now, mu, tret, refreshLog, saveLog>>

\* s.mu.Lock()
LockFree(c) == TRUE
LockGuard(c) == mu = 0

Lock(c) ==
    /\ tpc[c] = "lock"
    /\ LockGuard(c)
    /\ mu' = c
    /\ tpc' = [tpc EXCEPT ![c] = "check"]
    /\ UNCHANGED <<cred, disk, now, tret, tsaw, refreshLog, saveLog>>

\* lines 79-87: nil check, IsExpired, and the refresh request going out
Check(c) ==
    /\ tpc[c] = "check"
    /\ IF cred = NoCred
       THEN /\ tret' = [tret EXCEPT ![c] = Err("no credentials stored; authenticate first")]
            /\ tpc' = [tpc EXCEPT ![c] = "done"]
            /\ mu' = 0
            /\ UNCHANGED refreshLog
       ELSE IF ~IsExpired(cred, now)
       THEN /\ tret' = [tret EXCEPT ![c] = Ok(cred.accessToken)]
            /\ tpc' = [tpc EXCEPT ![c] = "done"]
            /\ mu' = 0
            /\ UNCHANGED refreshLog
       ELSE /\ refreshLog' = Append(refreshLog, [by |-> c, sent |-> cred.refreshToken,
                                                 resp |-> PendingResponse])
            /\ tpc' = [tpc EXCEPT ![c] = "refresh"]
            /\ UNCHANGED <<tret, mu>>
    /\ UNCHANGED <<cred, disk, now, tsaw, saveLog>>

\* lines 87-102: the provider's answer, the update, the durable write, the return
RefreshReturn(c) ==
    /\ tpc[c] = "refresh"
    /\ \E resp \in ProviderResponses, w \in WriteOutcomes :
         LET i == CHOOSE k \in 1..Len(refreshLog) :
                     refreshLog[k].by = c /\ refreshLog[k].resp = PendingResponse
             e == RefreshError(resp)
             nc == ApplyRefresh(cred, resp, now)
         IN /\ refreshLog' = [refreshLog EXCEPT ![i].resp = resp]
            /\ IF e # ""
               THEN /\ tret' = [tret EXCEPT ![c] = Err(e)]
                    /\ UNCHANGED <<cred, disk, saveLog>>
               ELSE /\ cred' = nc
                    /\ disk' = WriteFile(disk, nc, w)
                    /\ saveLog' = Append(saveLog, [op |-> "refresh", outcome |-> w])
                    /\ tret' = [tret EXCEPT ![c] =
                                  IF w = "ok" THEN Ok(nc.accessToken)
                                  ELSE Err("saving refreshed token")]
    /\ tpc' = [tpc EXCEPT ![c] = "done"]
    /\ mu' = 0
    /\ UNCHANGED <<now, tsaw>>

\* Store.Save: under the mutex, replace the credential and write the file
SavedCredentials ==
    { Credentials("at0", "rt0", exp, "acct") : exp \in {RefreshMargin, LongLife} }

SaveCalls == Cardinality({k \in 1..Len(saveLog) : saveLog[k].op = "Save"})

Save ==
    /\ mu = 0
    /\ SaveCalls < MaxSaves
    /\ \E c \in SavedCredentials, w \in WriteOutcomes :
         /\ cred' = c
         /\ disk' = WriteFile(disk, c, w)
         /\ saveLog' = Append(saveLog, [op |-> "Save", outcome |-> w])
    /\ UNCHANGED <<now, mu, tpc, tret, tsaw, refreshLog>>

\* a second passes
Tick ==
    /\ now < MaxNow
    /\ now' = now + 1
    /\ UNCHANGED <<cred, disk, mu, tpc, tret, tsaw, refreshLog, saveLog>>

\* NewStore: the file is absent, or holds a credential saved earlier
InitialCredentials ==
    { Credentials("at0", "rt0", exp, "acct") :
        exp \in {RefreshMargin - 1, RefreshMargin, RefreshMargin + 1, RefreshMargin + MaxNow + 1} }

InitToken ==
    /\ ChatIdle /\ TokenIdle /\ AuthIdle /\ TransIdle /\ FileIdle /\ DeviceIdle
    /\ \/ cred = NoCred /\ disk = NoFile
       \/ \E c \in InitialCredentials : cred = c /\ disk = FileOf(c)

NextToken ==
    \/ \E c \in Callers : Call(c) /\ UNCHANGED <<dbVars, chatVars, streamVars, authVars, transVars, fileVars, deviceVars>>
    \/ \E c \in Callers : Lock(c) /\ UNCHANGED <<dbVars, chatVars, streamVars, authVars, transVars, fileVars, deviceVars>>
    \/ \E c \in Callers : Check(c) /\ UNCHANGED <<dbVars, chatVars, streamVars, authVars, transVars, fileVars, deviceVars>>
    \/ \E c \in Callers : RefreshReturn(c) /\ UNCHANGED <<dbVars, chatVars, streamVars, authVars, transVars, fileVars, deviceVars>>
    \/ Save /\ UNCHANGED <<dbVars, chatVars, streamVars, authVars, transVars, fileVars, deviceVars>>
    \/ Tick /\ UNCHANGED <<dbVars, chatVars, streamVars, authVars, transVars, fileVars, deviceVars>>

SpecToken == InitToken /\ [][NextToken]_vars

(***************************************************************************)
(* TokenStoreLive (TypeScript): accessToken runs without interruption up   *)
(* to the fetch inside refreshToken, and again from the provider's answer  *)
(* to its return; other calls run while the fetch is outstanding.          *)
(***************************************************************************)
\* oauth isExpired: Date.now() / 1000 > cred.expiresAt - 300
isExpired(c, t) == t > c.expiresAt - RefreshMargin

\* the answers refreshToken can get; a token response carries refresh_token
RefreshAnswers ==
    {resp \in TokenResponses : resp.refreshToken # ""} \cup ErrorResponses

\* refreshToken: the OAuthError it fails with, "" for none
refreshTokenError(resp) ==
    IF resp.status = 0 THEN "OAuthError: fetch failed"
    ELSE IF resp.status # 200
    THEN IF resp.error = "invalid_grant" \/ Contains(resp.description, Revoked)
         THEN "OAuthError: " \o ErrReauthenticate
         ELSE "OAuthError: token refresh failed"
    ELSE IF resp.malformed THEN "OAuthError: invalid JSON"
    ELSE ""

\* lines 93-99
updated(c, tokResp, t) ==
    Credentials(tokResp.accessToken, tokResp.refreshToken, t + tokResp.expiresIn,
                c.accountId)

\* lines 79-92: no credential, a token outside the expired window, or the
\* refresh request going out
accessTokenBegin(c) ==
    /\ tpc[c] = "idle"
    /\ tsaw' = [tsaw EXCEPT ![c] = cred # NoCred /\ isExpired(cred, now)]
    /\ IF cred = NoCred
       THEN /\ tret' = [tret EXCEPT ![c] = Err("no credentials stored; authenticate first")]
            /\ tpc' = [tpc EXCEPT ![c] = "done"]
            /\ UNCHANGED refreshLog
       ELSE IF ~isExpired(cred, now)
       THEN /\ tret' = [tret EXCEPT ![c] = Ok(cred.accessToken)]
            /\ tpc' = [tpc EXCEPT ![c] = "done"]
            /\ UNCHANGED refreshLog
       ELSE /\ refreshLog' = Append(refreshLog, [by |-> c, sent |-> cred.refreshToken,
                                                 resp |-> PendingResponse])
            /\ tpc' = [tpc EXCEPT ![c] = "refresh"]
            /\ UNCHANGED tret
    /\ UNCHANGED <<cred, disk, now, mu, saveLog>>

\* lines 92-101: the provider's answer, save (cred is assigned before the file
\* is written), the return
accessTokenResume(c) ==
    /\ tpc[c] = "refresh"
    /\ \E tokResp \in RefreshAnswers, w \in WriteOutcomes :
         LET i == CHOOSE k \in 1..Len(refreshLog) :
                     refreshLog[k].by = c /\ refreshLog[k].resp = PendingResponse
             e == refreshTokenError(tokResp)
             next == updated(cred, tokResp, now)
         IN /\ refreshLog' = [refreshLog EXCEPT ![i].resp = tokResp]
            /\ IF e # ""
               THEN /\ tret' = [tret EXCEPT ![c] = Err(e)]
                    /\ UNCHANGED <<cred, disk, saveLog>>
               ELSE /\ cred' = next
                    /\ disk' = WriteFile(disk, next, w)
                    /\ saveLog' = Append(saveLog, [op |-> "refresh", outcome |-> w])
                    /\ tret' = [tret EXCEPT ![c] =
                                  IF w = "ok" THEN Ok(next.accessToken)
                                  ELSE Err("saving token")]
    /\ tpc' = [tpc EXCEPT ![c] = "done"]
    /\ UNCHANGED <<now, mu, tsaw>>

NextTokenStoreLive ==
    \/ \E c \in Callers : accessTokenBegin(c) /\ UNCHANGED <<dbVars, chatVars, streamVars, authVars, transVars, fileVars, deviceVars>>
    \/ \E c \in Callers : accessTokenResume(c) /\ UNCHANGED <<dbVars, chatVars, streamVars, authVars, transVars, fileVars, deviceVars>>
    \/ Tick /\ UNCHANGED <<dbVars, chatVars, streamVars, authVars, transVars, fileVars, deviceVars>>

SpecTokenStoreLive == InitToken /\ [][NextTokenStoreLive]_vars

(***************************************************************************)
(* Store.AccessToken as one critical section: what it returns and what it  *)
(* leaves behind, given the provider's answer and the outcome of the write *)
(* (both are consulted only when the token is in the expired window).      *)
(***************************************************************************)
AccessTokenCall(c0, d0, t, rsp, w) ==
    IF c0 = NoCred
    THEN [cred |-> c0, disk |-> d0, ret |-> Err("no credentials stored; authenticate first"),
          refreshed |-> FALSE, wrote |-> FALSE]
    ELSE IF ~IsExpired(c0, t)
    THEN [cred |-> c0, disk |-> d0, ret |-> Ok(c0.accessToken),
          refreshed |-> FALSE, wrote |-> FALSE]
    ELSE IF RefreshError(rsp) # ""
    THEN [cred |-> c0, disk |-> d0, ret |-> Err(RefreshError(rsp)),
          refreshed |-> TRUE, wrote |-> FALSE]
    ELSE LET nc == ApplyRefresh(c0, rsp, t)
         IN [cred |-> nc, disk |-> WriteFile(d0, nc, w),
             ret |-> IF w = "ok" THEN Ok(nc.accessToken) ELSE Err("saving refreshed token"),
             refreshed |-> TRUE, wrote |-> TRUE]

(***************************************************************************)
(* The credential file: json.MarshalIndent in Store.save and               *)
(* json.Unmarshal in Store.load.  Text is a sequence of characters; the    *)
(* quoted name of a field stands as one element.                           *)
(***************************************************************************)
KeyAccessToken == "\"access_token\""
KeyRefreshToken == "\"refresh_token\""
KeyExpiresAt == "\"expires_at\""
KeyAccountID == "\"account_id\""
FieldKeys == {KeyAccessToken, KeyRefreshToken, KeyExpiresAt, KeyAccountID}

DigitChars == <<"0", "1", "2", "3", "4", "5", "6", "7", "8", "9">>
DigitValue(ch) == (CHOOSE d \in 1..10 : DigitChars[d] = ch) - 1
IsDigit(ch) == \E d \in 1..10 : DigitChars[d] = ch

\* strconv: the decimal text of a non-negative integer
RECURSIVE FormatDigits(_)
FormatDigits(n) ==
    IF n < 10 THEN <<DigitChars[n + 1]>>
    ELSE FormatDigits(n \div 10) \o <<DigitChars[(n % 10) + 1]>>

FormatInt(n) == IF n < 0 THEN <<"-">> \o FormatDigits(0 - n) ELSE FormatDigits(n)

\* encoding/json: how one character of a string is written (HTML-safe escaping)
EscapeCharPlain(ch) == <<ch>>
EscapeChar(ch) ==
    CASE ch = "\"" -> <<"\\", "\"">>
      [] ch = "\\" -> <<"\\", "\\">>
      [] ch = "\n" -> <<"\\", "n">>
      [] ch = "<" -> <<"\\", "u", "0", "0", "3", "c">>
      [] OTHER -> <<ch>>

RECURSIVE EscapeString(_)
EscapeString(s) ==
    IF s = <<>> THEN <<>> ELSE EscapeChar(Head(s)) \o EscapeString(Tail(s))

Quote(s) == <<"\"">> \o EscapeString(s) \o <<"\"">>

Indent == <<"\n", " ", " ">>

\* json.MarshalIndent(s.cred, "", "  ")
MarshalIndent(c) ==
    <<"{">>
    \o Indent \o <<KeyAccessToken, ":", " ">> \o Quote(c.accessToken) \o <<",">>
    \o Indent \o <<KeyRefreshToken, ":", " ">> \o Quote(c.refreshToken) \o <<",">>
    \o Indent \o <<KeyExpiresAt, ":", " ">> \o FormatInt(c.expiresAt) \o <<",">>
    \o Indent \o <<KeyAccountID, ":", " ">> \o Quote(c.accountId)
    \o <<"\n", "}">>

Parsed(ok, next, val) == [ok |-> ok, next |-> next, val |-> val]

RECURSIVE SkipSpace(_, _)
SkipSpace(t, i) ==
    IF i <= Len(t) /\ t[i] \in {" ", "\n"} THEN SkipSpace(t, i + 1) ELSE i

\* the characters of a string literal from position i (after the opening quote)
RECURSIVE ScanString(_, _, _)
ScanString(t, i, sofar) ==
    IF i > Len(t) THEN Parsed(FALSE, i, sofar)
    ELSE IF t[i] = "\"" THEN Parsed(TRUE, i + 1, sofar)
    ELSE IF t[i] = "\n" THEN Parsed(FALSE, i, sofar)
    ELSE IF t[i] # "\\" THEN ScanString(t, i + 1, Append(sofar, t[i]))
    ELSE IF i + 1 > Len(t) THEN Parsed(FALSE, i, sofar)
    ELSE IF t[i + 1] \in {"\"", "\\"} THEN ScanString(t, i + 2, Append(sofar, t[i + 1]))
    ELSE IF t[i + 1] = "n" THEN ScanString(t, i + 2, Append(sofar, "\n"))
    ELSE IF t[i + 1] = "u" /\ i + 5 <= Len(t) /\ SubSeq(t, i + 2, i + 5) = <<"0", "0", "3", "c">>
         THEN ScanString(t, i + 6, Append(sofar, "<"))
    ELSE Parsed(FALSE, i, sofar)

ParseString(t, i) ==
    IF i <= Len(t) /\ t[i] = "\"" THEN ScanString(t, i + 1, <<>>)
    ELSE Parsed(FALSE, i, <<>>)

RECURSIVE ScanDigits(_, _, _)
ScanDigits(t, i, sofar) ==
    IF i <= Len(t) /\ IsDigit(t[i])
    THEN ScanDigits(t, i + 1, sofar * 10 + DigitValue(t[i]))
    ELSE Parsed(TRUE, i, sofar)

ParseInt(t, i) ==
    IF i <= Len(t) /\ t[i] = "-"
    THEN IF i + 1 <= Len(t) /\ IsDigit(t[i + 1])
         THEN LET p == ScanDigits(t, i + 1, 0) IN Parsed(TRUE, p.next, 0 - p.val)
         ELSE Parsed(FALSE, i, 0)
    ELSE IF i <= Len(t) /\ IsDigit(t[i]) THEN ScanDigits(t, i, 0)
    ELSE Parsed(FALSE, i, 0)

\* the field a key stores into
WithField(c, key, val) ==
    CASE key = KeyAccessToken -> [c EXCEPT !.accessToken = val]
      [] key = KeyRefreshToken -> [c EXCEPT !.refreshToken = val]
      [] key = KeyExpiresAt -> [c EXCEPT !.expiresAt = val]
      [] OTHER -> [c EXCEPT !.accountId = val]

\* the members of the object from position i: "key": value, ... }
RECURSIVE ParseMembers(_, _, _)
ParseMembers(t, i, c) ==
    LET k == SkipSpace(t, i)
    IN IF k > Len(t) \/ t[k] \notin FieldKeys THEN Parsed(FALSE, k, c)
       ELSE LET colon == SkipSpace(t, k + 1)
            IN IF colon > Len(t) \/ t[colon] # ":" THEN Parsed(FALSE, colon, c)
               ELSE LET v == IF t[k] = KeyExpiresAt
                             THEN ParseInt(t, SkipSpace(t, colon + 1))
                             ELSE ParseString(t, SkipSpace(t, colon + 1))
                        after == SkipSpace(t, v.next)
                    IN IF ~v.ok \/ after > Len(t) THEN Parsed(FALSE, after, c)
                       ELSE IF t[after] = ","
                            THEN ParseMembers(t, after + 1, WithField(c, t[k], v.val))
                       ELSE IF t[after] = "}"
                            THEN Parsed(SkipSpace(t, after + 1) > Len(t), after + 1,
                                        WithField(c, t[k], v.val))
                       ELSE Parsed(FALSE, after, c)

ZeroCredentials == Credentials(<<>>, <<>>, 0, <<>>)

\* json.Unmarshal(data, &cred): ok is FALSE when it returns an error
Unmarshal(t) ==
    LET open == SkipSpace(t, 1)
    IN IF open > Len(t) \/ t[open] # "{" THEN Parsed(FALSE, open, ZeroCredentials)
       ELSE LET first == SkipSpace(t, open + 1)
            IN IF first <= Len(t) /\ t[first] = "}"
               THEN Parsed(SkipSpace(t, first + 1) > Len(t), first + 1, ZeroCredentials)
               ELSE ParseMembers(t, open + 1, ZeroCredentials)

(***************************************************************************)
(* token.Store over the credential file: NewStore with its best-effort     *)
(* load, Save, and the end of the process that owns the Store.             *)
(***************************************************************************)
Absent == [kind |-> "absent"]
Unreadable == [kind |-> "unreadable"]
Data(text) == [kind |-> "data", text |-> text]

Down == [up |-> FALSE]
StoreOf(c, loaded) == [up |-> TRUE, cred |-> c, loaded |-> loaded]

CodecAlphabet == {"a", "\"", "\\", "<", "\n"}
CodecStrings == UNION { [1..n -> CodecAlphabet] : n \in 0..MaxStr }
CodecInstants == {0 - 1, 0, 10, 1700000000}
CodecCredentials ==
    { Credentials(at, rt, exp, acct) :
        at \in CodecStrings, rt \in CodecStrings, exp \in CodecInstants,
        acct \in {<<>>, <<"a", "<">>} }

\* Store.load: the error it returns ("" for nil) and the credential it sets
Load(f) ==
    IF f.kind = "absent" THEN [err |-> "absent", cred |-> NoCred]
    ELSE IF f.kind = "unreadable" THEN [err |-> "unreadable", cred |-> NoCred]
    ELSE LET p == Unmarshal(f.text)
         IN IF p.ok THEN [err |-> "", cred |-> p.val]
            ELSE [err |-> "decode", cred |-> NoCred]

\* os.WriteFile(path, data, 0600): open with O_TRUNC, write, close
TextWriteOutcomes == {"ok", "failOpen", "failEmpty", "failPartial"}
WriteText(old, text, outcome) ==
    CASE outcome = "ok" -> Data(text)
      [] outcome = "failOpen" -> old
      [] outcome = "failEmpty" -> Data(<<>>)
      [] OTHER -> Data(SubSeq(text, 1, Len(text) \div 2))

StoreHasCredentials(s) == s.cred # NoCred

NewStore ==
    /\ newStore = Down
    /\ \E mkdir \in {"ok", "fail"} :
         IF mkdir = "fail"
         THEN /\ newStoreErr' = "creating token directory"
              /\ UNCHANGED <<newStore, loadErr>>
         ELSE /\ newStoreErr' = ""
              /\ loadErr' = Load(pathFile).err
              /\ newStore' = StoreOf(Load(pathFile).cred, TRUE)
    /\ UNCHANGED <<pathFile, fileSaves>>

FileSave ==
    /\ newStore # Down
    /\ Len(fileSaves) < MaxSaves
    /\ \E c \in CodecCredentials, w \in TextWriteOutcomes :
         /\ newStore' = StoreOf(c, FALSE)
         /\ pathFile' = WriteText(pathFile, MarshalIndent(c), w)
         /\ fileSaves' = Append(fileSaves,
                [cred |-> c, before |-> pathFile,
                 ret |-> IF w = "ok" THEN "" ELSE "writing credentials"])
    /\ UNCHANGED <<newStoreErr, loadErr>>

Exit ==
    /\ newStore # Down
    /\ newStore' = Down
    /\ UNCHANGED <<pathFile, fileSaves, newStoreErr, loadErr>>

InitialFiles ==
    {Absent, Unreadable, Data(<<>>), Data(<<"{">>),
     Data(MarshalIndent(Credentials(<<"a">>, <<"a">>, 10, <<>>)))}

InitFile ==
    /\ ChatIdle /\ TokenIdle /\ AuthIdle /\ TransIdle /\ DeviceIdle
    /\ cred = NoCred /\ disk = NoFile
    /\ pathFile \in InitialFiles
    /\ newStore = Down
    /\ fileSaves = <<>>
    /\ newStoreErr = ""
    /\ loadErr = ""

NextFile ==
    \/ NewStore /\ UNCHANGED <<tokenVars, dbVars, chatVars, streamVars, authVars, transVars, deviceVars>>
    \/ FileSave /\ UNCHANGED <<tokenVars, dbVars, chatVars, streamVars, authVars, transVars, deviceVars>>
    \/ Exit /\ UNCHANGED <<tokenVars, dbVars, chatVars, streamVars, authVars, transVars, deviceVars>>

SpecFile == InitFile /\ [][NextFile]_vars

(***************************************************************************)
(* chat.StreamCompletion (the responses variant): the upstream's lines and *)
(* what the scan loop does with one line.                                  *)
(***************************************************************************)
\* the k-th text fragment of a response body
WireFrag(k) == IF k % 2 = 1 THEN <<"a">> ELSE <<"b", "c">>

Line(prefixed, json, type, delta) ==
    [prefixed |-> prefixed, json |-> json, type |-> type, delta |-> delta]

\* the lines the upstream may send next, after k text fragments
WireLines(k) ==
    { Line(FALSE, TRUE, "response.completed", <<>>),   \* a line without the "data: " prefix
      Line(TRUE, FALSE, "", <<>>),                     \* a payload that is not JSON
      Line(TRUE, TRUE, "response.created", <<"a">>),   \* an event of another type
      Line(TRUE, TRUE, "response.output_text.delta", <<>>),
      Line(TRUE, TRUE, "response.completed", <<>>) }
    \cup IF k < MaxDeltas
         THEN {Line(TRUE, TRUE, "response.output_text.delta", WireFrag(k + 1))}
         ELSE {}

Delta(content, done) == [kind |-> "delta", content |-> content, done |-> done, err |-> ""]
StreamError(e) == [kind |-> "error", content |-> <<>>, done |-> FALSE, err |-> e]

\* lines 102-131: what one scanned line makes the goroutine do
ScanLineAnyType(line) ==
    IF ~line.prefixed THEN [do |-> "skip", content |-> <<>>]
    ELSE IF ~line.json THEN [do |-> "skip", content |-> <<>>]
    ELSE IF line.type = "response.completed" THEN [do |-> "done", content |-> <<>>]
    ELSE IF line.delta # <<>> THEN [do |-> "emit", content |-> line.delta]
    ELSE [do |-> "skip", content |-> <<>>]

ScanLine(line) ==
    IF ~line.prefixed THEN [do |-> "skip", content |-> <<>>]
    ELSE IF ~line.json THEN [do |-> "skip", content |-> <<>>]
    ELSE IF line.type = "response.output_text.delta"
         THEN IF line.delta # <<>> THEN [do |-> "emit", content |-> line.delta]
              ELSE [do |-> "skip", content |-> <<>>]
    ELSE IF line.type = "response.completed" THEN [do |-> "done", content |-> <<>>]
    ELSE [do |-> "skip", content |-> <<>>]

\* lines 81-92: http.DefaultClient.Do and the status check
ProducerDo(r) ==
    /\ ppc[r] = "do"
    /\ \E o \in IF cancelled[r] = "" THEN {"200", "API request", "API error"}
               ELSE {"API request"} :
         IF o = "200"
         THEN /\ ppc' = [ppc EXCEPT ![r] = "scan"]
              /\ UNCHANGED <<errCh, sent>>
         ELSE /\ errCh' = [errCh EXCEPT ![r] = Append(@, o)]
              /\ sent' = [sent EXCEPT ![r] = Append(@, StreamError(o))]
              /\ ppc' = [ppc EXCEPT ![r] = "closeErr"]
    /\ UNCHANGED <<deltaCh, deltaClosed, errClosed>>

\* the scan loop going on after the termination signal
ProducerScanOn(r) ==
    /\ ppc[r] = "scan"
    /\ \E line \in WireLines(Len(sent[r])) :
         LET a == ScanLine(line)
         IN CASE a.do = "emit" ->
                   /\ Len(deltaCh[r]) < DeltaBuf
                   /\ deltaCh' = [deltaCh EXCEPT ![r] = Append(@, Delta(a.content, FALSE))]
                   /\ sent' = [sent EXCEPT ![r] = Append(@, Delta(a.content, FALSE))]
                   /\ UNCHANGED ppc
              [] a.do = "done" ->
                   /\ Len(deltaCh[r]) < DeltaBuf
                   /\ deltaCh' = [deltaCh EXCEPT ![r] = Append(@, Delta(<<>>, TRUE))]
                   /\ sent' = [sent EXCEPT ![r] = Append(@, Delta(<<>>, TRUE))]
                   /\ UNCHANGED ppc
              [] OTHER ->
                   UNCHANGED <<deltaCh, sent, ppc>>
    /\ UNCHANGED <<deltaClosed, errCh, errClosed>>

\* lines 101-132: one scanner.Scan() that returns a line
ProducerScan(r) ==
    /\ ppc[r] = "scan"
    /\ \E line \in WireLines(Len(sent[r])) :
         LET a == ScanLine(line)
         IN CASE a.do = "emit" ->
                   /\ Len(deltaCh[r]) < DeltaBuf
                   /\ deltaCh' = [deltaCh EXCEPT ![r] = Append(@, Delta(a.content, FALSE))]
                   /\ sent' = [sent EXCEPT ![r] = Append(@, Delta(a.content, FALSE))]
                   /\ UNCHANGED ppc
              [] a.do = "done" ->
                   /\ Len(deltaCh[r]) < DeltaBuf
                   /\ deltaCh' = [deltaCh EXCEPT ![r] = Append(@, Delta(<<>>, TRUE))]
                   /\ sent' = [sent EXCEPT ![r] = Append(@, Delta(<<>>, TRUE))]
                   /\ ppc' = [ppc EXCEPT ![r] = "closeErr"]
              [] OTHER ->
                   UNCHANGED <<deltaCh, sent, ppc>>
    /\ UNCHANGED <<deltaClosed, errCh, errClosed>>

\* lines 132-135: scanner.Scan() returns false, at the end of the body or on a read error
ProducerEnd(r) ==
    /\ ppc[r] = "scan"
    /\ \E o \in {"EOF", "reading stream"} :
         IF o = "EOF"
         THEN UNCHANGED <<errCh, sent>>
         ELSE /\ errCh' = [errCh EXCEPT ![r] = Append(@, o)]
              /\ sent' = [sent EXCEPT ![r] = Append(@, StreamError(o))]
    /\ ppc' = [ppc EXCEPT ![r] = "closeErr"]
    /\ UNCHANGED <<deltaCh, deltaClosed, errClosed>>

\* line 52, run first: defer close(errCh)
ProducerCloseErr(r) ==
    /\ ppc[r] = "closeErr"
    /\ errClosed' = [errClosed EXCEPT ![r] = TRUE]
    /\ ppc' = [ppc EXCEPT ![r] = "closeDelta"]
    /\ UNCHANGED <<deltaCh, deltaClosed, errCh, sent>>

\* line 51, run last: defer close(deltaCh)
ProducerCloseDelta(r) ==
    /\ ppc[r] = "closeDelta"
    /\ deltaClosed' = [deltaClosed EXCEPT ![r] = TRUE]
    /\ ppc' = [ppc EXCEPT ![r] = "exited"]
    /\ UNCHANGED <<deltaCh, errCh, errClosed, sent>>

(***************************************************************************)
(* server.handleChat.                                                      *)
(***************************************************************************)
DefaultConversation == "default"

Body(message, conv) == [valid |-> TRUE, message |-> message, conv |-> conv]

\* the bodies a client sends: not JSON, blank messages, and two proper ones
Bodies ==
    { NoBody, Body(<<>>, ""), Body(<<" ", "\n">>, "c1"),
      Body(<<"h", "i">>, ""), Body(<<" ", "y">>, "c1") }

\* lines 80-83
ConvOf(r) == IF req[r].conv = "" THEN DefaultConversation ELSE req[r].conv

ContentFrame(text) == [frame |-> "content", text |-> text, err |-> ""]
DoneFrame == [frame |-> "[DONE]", text |-> <<>>, err |-> ""]
ErrorFrame(e) == [frame |-> "error", text |-> <<>>, err |-> e]

Log(r, ev) == trace' = [trace EXCEPT ![r] = @ \o ev]

\* the order of the handler's stages, as the statements stand in handleChat
StageAfterSwapped(stage) ==
    CASE stage = "start" -> "token"
      [] stage = "token" -> "history"
      [] stage = "history" -> "storeUser"
      [] stage = "storeUser" -> "relay"
      [] stage = "relay" -> "checkErr"
      [] stage = "checkErr" -> "persist"
      [] OTHER -> "done"

StageAfter(stage) ==
    CASE stage = "start" -> "token"
      [] stage = "token" -> "storeUser"
      [] stage = "storeUser" -> "history"
      [] stage = "history" -> "relay"
      [] stage = "relay" -> "checkErr"
      [] stage = "checkErr" -> "persist"
      [] OTHER -> "done"

\* line 75: strings.TrimSpace(req.Message) == ""
MessageMissingNever(message) == FALSE
MessageMissing(message) == TrimSpace(message) = <<>>

\* line 87: err != nil
TokenFailedNever(ret) == FALSE
TokenFailed(ret) == ret.err # ""

\* line 138: fullResponse.WriteString(delta.Content)
AccumulatePrepended(buf, content) == content \o buf
Accumulate(buf, content) == buf \o content

\* lines 147-148: a non-nil error is received from errCh
StreamFailedNever(ch) == FALSE
StreamFailed(ch) == ch # <<>>

\* line 158: resp != ""
WorthStoringAlways(text) == TRUE
WorthStoring(text) == text # <<>>

\* lines 70-78: decode the body, reject a blank message
Decode(r) ==
    /\ pc[r] = "start"
    /\ UNCHANGED cancelled
    /\ \E b \in Bodies :
         /\ req' = [req EXCEPT ![r] = b]
         /\ IF ~b.valid \/ MessageMissing(b.message)
            THEN /\ status' = [status EXCEPT ![r] = 400]
                 /\ pc' = [pc EXCEPT ![r] = "done"]
            ELSE /\ pc' = [pc EXCEPT ![r] = StageAfter("start")]
                 /\ UNCHANGED status
    /\ UNCHANGED <<tok, out, acc, opened, trace>>
    /\ UNCHANGED <<tokenVars, dbVars, streamVars, authVars, transVars, fileVars, deviceVars>>

\* the provider's answers while the server runs: accepted for an hour, or rejected
ServerRefreshResponses ==
    { rsp \in ProviderResponses :
        \/ rsp.status = 200 /\ rsp.accessToken = "at1" /\ rsp.refreshToken = "rt1"
           /\ rsp.expiresIn = LongLife
        \/ rsp.error = "invalid_grant" }

\* lines 86-91: s.ts.AccessToken
AcquireToken(r) ==
    /\ pc[r] = "token"
    /\ UNCHANGED cancelled
    /\ mu = 0
    /\ \E rsp \in ServerRefreshResponses, w \in WriteOutcomes :
         LET a == AccessTokenCall(cred, disk, now, rsp, w)
         IN /\ cred' = a.cred
            /\ disk' = a.disk
            /\ refreshLog' = IF a.refreshed
                             THEN Append(refreshLog, [by |-> r, sent |-> cred.refreshToken,
                                                      resp |-> rsp])
                             ELSE refreshLog
            /\ saveLog' = IF a.wrote
                          THEN Append(saveLog, [op |-> "refresh", outcome |-> w])
                          ELSE saveLog
            /\ tok' = [tok EXCEPT ![r] = a.ret]
            /\ Log(r, <<IF a.ret.err # "" THEN "tokenFailed" ELSE "token">>)
            /\ IF TokenFailed(a.ret)
               THEN /\ status' = [status EXCEPT ![r] = 401]
                    /\ pc' = [pc EXCEPT ![r] = "done"]
               ELSE /\ pc' = [pc EXCEPT ![r] = StageAfter("token")]
                    /\ UNCHANGED status
    /\ UNCHANGED <<req, out, acc, opened>>
    /\ UNCHANGED <<now, mu, tpc, tret, tsaw>>
    /\ UNCHANGED <<dbVars, streamVars, authVars, transVars, fileVars, deviceVars>>

\* lines 94-98: s.db.AddMessage(convID, RoleUser, req.Message)
StoreUser(r) ==
    /\ pc[r] = "storeUser"
    /\ UNCHANGED cancelled
    /\ \/ /\ db' = Inserted(db, nextId, ConvOf(r), "user", req[r].message)
          /\ nextId' = nextId + 1
          /\ inserts' = Append(inserts, Arguments(ConvOf(r), "user", req[r].message))
          /\ pc' = [pc EXCEPT ![r] = StageAfter("storeUser")]
          /\ Log(r, <<"userWrite">>)
          /\ UNCHANGED status
       \/ /\ status' = [status EXCEPT ![r] = 500]
          /\ pc' = [pc EXCEPT ![r] = "done"]
          /\ Log(r, <<"userWriteFailed">>)
          /\ UNCHANGED dbVars
    /\ UNCHANGED <<req, tok, out, acc, opened>>
    /\ UNCHANGED <<tokenVars, streamVars, authVars, transVars, fileVars, deviceVars>>

\* lines 101-129: s.db.Messages, the SSE headers, and the StreamCompletion call
OpenStream(r) ==
    /\ pc[r] = "history"
    /\ UNCHANGED cancelled
    /\ \/ /\ opened' = [opened EXCEPT ![r] =
                          Append(@, [token |-> tok[r].token,
                                     accountId |-> IF cred = NoCred THEN ""
                                                   ELSE cred.accountId,
                                     messages |-> ToChatMessages(Messages(db, ConvOf(r)))])]
          /\ status' = [status EXCEPT ![r] = 200]
          /\ ppc' = [ppc EXCEPT ![r] = "do"]
          /\ pc' = [pc EXCEPT ![r] = StageAfter("history")]
          /\ Log(r, <<"history", "open">>)
       \/ /\ status' = [status EXCEPT ![r] = 500]
          /\ pc' = [pc EXCEPT ![r] = "done"]
          /\ Log(r, <<"historyFailed">>)
          /\ UNCHANGED <<opened, ppc>>
    /\ UNCHANGED <<req, tok, out, acc>>
    /\ UNCHANGED <<deltaCh, deltaClosed, errCh, errClosed, sent>>
    /\ UNCHANGED <<tokenVars, dbVars, authVars, transVars, fileVars, deviceVars>>

\* lines 132-143: one iteration of "for delta := range deltaCh"
Relay(r) ==
    /\ pc[r] = "relay"
    /\ UNCHANGED cancelled
    /\ IF deltaCh[r] # <<>>
       THEN LET d == Head(deltaCh[r])
            IN /\ deltaCh' = [deltaCh EXCEPT ![r] = Tail(@)]
               /\ IF d.done
                  THEN /\ out' = [out EXCEPT ![r] = Append(@, DoneFrame)]
                       /\ pc' = [pc EXCEPT ![r] = StageAfter("relay")]
                       /\ UNCHANGED acc
                  ELSE /\ acc' = [acc EXCEPT ![r] = Accumulate(@, d.content)]
                       /\ out' = [out EXCEPT ![r] = Append(@, ContentFrame(d.content))]
                       /\ UNCHANGED pc
       ELSE /\ deltaClosed[r]
            /\ pc' = [pc EXCEPT ![r] = StageAfter("relay")]
            /\ UNCHANGED <<deltaCh, out, acc>>
    /\ UNCHANGED <<req, tok, status, opened, trace>>
    /\ UNCHANGED <<ppc, deltaClosed, errCh, errClosed, sent>>
    /\ UNCHANGED <<tokenVars, dbVars, authVars, transVars, fileVars, deviceVars>>

\* lines 146-155: the non-blocking receive on errCh
CheckErr(r) ==
    /\ pc[r] = "checkErr"
    /\ UNCHANGED cancelled
    /\ IF StreamFailed(errCh[r])
       THEN /\ errCh' = [errCh EXCEPT ![r] = Tail(@)]
            /\ out' = [out EXCEPT ![r] = Append(@, ErrorFrame(Head(errCh[r])))]
            /\ pc' = [pc EXCEPT ![r] = "done"]
       ELSE /\ pc' = [pc EXCEPT ![r] = StageAfter("checkErr")]
            /\ UNCHANGED <<errCh, out>>
    /\ UNCHANGED <<req, tok, status, acc, opened, trace>>
    /\ UNCHANGED <<ppc, deltaCh, deltaClosed, errClosed, sent>>
    /\ UNCHANGED <<tokenVars, dbVars, authVars, transVars, fileVars, deviceVars>>

\* lines 158-162: store the assistant response
Persist(r) ==
    /\ pc[r] = "persist"
    /\ UNCHANGED cancelled
    /\ IF WorthStoring(acc[r])
       THEN \/ /\ db' = Inserted(db, nextId, ConvOf(r), "assistant", acc[r])
               /\ nextId' = nextId + 1
               /\ inserts' = Append(inserts, Arguments(ConvOf(r), "assistant", acc[r]))
               /\ Log(r, <<"assistantWrite">>)
            \/ /\ Log(r, <<"assistantWriteFailed">>)
               /\ UNCHANGED dbVars
       ELSE UNCHANGED <<dbVars, trace>>
    /\ pc' = [pc EXCEPT ![r] = "done"]
    /\ UNCHANGED <<req, tok, status, out, acc, opened>>
    /\ UNCHANGED <<tokenVars, streamVars, authVars, transVars, fileVars, deviceVars>>

\* the server starts with the credential file absent or holding a credential
\* the client goes away while its request is in flight: r.Context() is done
Cancel(r) ==
    /\ pc[r] \notin {"start", "done"}
    /\ cancelled[r] = ""
    /\ cancelled' = [cancelled EXCEPT ![r] = pc[r]]
    /\ UNCHANGED <<pc, req, tok, status, out, acc, opened, trace>>
    /\ UNCHANGED <<tokenVars, dbVars, streamVars, authVars, transVars, fileVars, deviceVars>>

ServerCredentials ==
    { Credentials("at0", "rt0", exp, "acct") : exp \in {RefreshMargin - 1, LongLife} }

Init ==
    /\ ChatIdle /\ TokenIdle /\ AuthIdle /\ TransIdle /\ FileIdle /\ DeviceIdle
    /\ \/ cred = NoCred /\ disk = NoFile
       \/ \E c \in ServerCredentials : cred = c /\ disk = FileOf(c)

Next ==
    \/ \E r \in Reqs : Decode(r)
    \/ \E r \in Reqs : AcquireToken(r)
    \/ \E r \in Reqs : StoreUser(r)
    \/ \E r \in Reqs : OpenStream(r)
    \/ \E r \in Reqs : Relay(r)
    \/ \E r \in Reqs : CheckErr(r)
    \/ \E r \in Reqs : Persist(r)
    \/ \E r \in Reqs : ProducerDo(r) /\ UNCHANGED <<tokenVars, dbVars, chatVars, authVars, transVars, fileVars, deviceVars>>
    \/ \E r \in Reqs : ProducerScan(r) /\ UNCHANGED <<tokenVars, dbVars, chatVars, authVars, transVars, fileVars, deviceVars>>
    \/ \E r \in Reqs : ProducerEnd(r) /\ UNCHANGED <<tokenVars, dbVars, chatVars, authVars, transVars, fileVars, deviceVars>>
    \/ \E r \in Reqs : ProducerCloseErr(r) /\ UNCHANGED <<tokenVars, dbVars, chatVars, authVars, transVars, fileVars, deviceVars>>
    \/ \E r \in Reqs : ProducerCloseDelta(r) /\ UNCHANGED <<tokenVars, dbVars, chatVars, authVars, transVars, fileVars, deviceVars>>

Spec == Init /\ [][Next]_vars

\* the server with clients that may go away while their requests are in flight
NextCancel ==
    \/ Next
    \/ \E r \in Reqs : Cancel(r)

SpecCancel == Init /\ [][NextCancel]_vars

\* the server with a client that sends its requests one at a time: a request is
\* read only after every earlier one has been answered
OneAtATime == Cardinality({r \in Reqs : pc[r] \notin {"start", "done"}}) <= 1

NextSerial == Next /\ OneAtATime'

SpecSerial == Init /\ [][NextSerial]_vars

(***************************************************************************)
(* oauth.Authenticate: the interactive PKCE flow.  One attempt: the        *)
(* callback server, its handlers (one goroutine per request), the          *)
(* goroutine running server.Serve, and the select of the caller.           *)
(***************************************************************************)
\* make(chan string, 1), make(chan error, 1)
ChanCap == 1

\* generateState: the state placed in the authorization URL
GeneratedState == "s1"

ErrStateMismatch == "state mismatch: possible CSRF attack"
ErrOAuth == "oauth error"
ErrNoCode == "no authorization code received"
ErrServe == "callback server"
ErrListen == "starting callback server"
ErrExchange == "token exchange"
ErrContext == "context done"
ErrTimeout == "authentication timed out after 5 minutes"

\* the query strings a request to /auth/callback can carry
CallbackQueries ==
    [state : {GeneratedState, "s2"}, error : {"", "access_denied"}, code : {"", "c1"}]

\* the callback handler's checks, in order: "" when the request passes them all
HandlerFailureCodeFirst(q) ==
    IF q.state # GeneratedState THEN ErrStateMismatch
    ELSE IF q.code # "" THEN ""
    ELSE IF q.error # "" THEN ErrOAuth
    ELSE ErrNoCode
HandlerFailure(q) ==
    IF q.state # GeneratedState THEN ErrStateMismatch
    ELSE IF q.error # "" THEN ErrOAuth
    ELSE IF q.code = "" THEN ErrNoCode
    ELSE ""

\* the token endpoint's answers to the exchange; account is what
\* extractAccountIDFromJWT finds in the returned tokens
ExchangeResponses ==
    [status : {200}, accessToken : {"", "at1"}, refreshToken : {"rt1"},
     expiresIn : {LongLife}, account : {"", "acct"}]
    \cup {[status |-> 400, accessToken |-> "", refreshToken |-> "", expiresIn |-> 0,
           account |-> ""]}

Failed(e) == [kind |-> "err", err |-> e, cred |-> NoCred]
Authenticated(c) == [kind |-> "cred", err |-> "", cred |-> c]

\* the result of the code branch of the select
ExchangeResult(rsp, t) ==
    IF rsp.status # 200
    THEN Failed(ErrExchange)
    ELSE Authenticated(Credentials(rsp.accessToken, rsp.refreshToken,
                                   t + rsp.expiresIn, rsp.account))

InFlight(k) == cb[k].hpc \in {"sendErr", "sendCode"}

\* net.Listen, the handler registration, go server.Serve, defer server.Shutdown
AuthStart ==
    /\ apc = "idle"
    /\ \/ /\ apc' = "select"
          /\ listening' = TRUE
          /\ spc' = "serving"
          /\ UNCHANGED aresult
       \/ /\ apc' = "returned"
          /\ aresult' = Failed(ErrListen)
          /\ UNCHANGED <<listening, spc>>
    /\ UNCHANGED <<codeChan, errChan, cb, arrivals, exchanges>>

\* a request to /auth/callback is accepted and its handler runs up to its channel send
Arrive(k) ==
    /\ listening /\ spc = "serving"
    /\ cb[k].hpc = "none"
    /\ k = Len(arrivals) + 1
    /\ \E q \in CallbackQueries :
         LET failure == HandlerFailure(q)
         IN cb' = [cb EXCEPT ![k] =
                     [hpc |-> IF failure # "" THEN "sendErr" ELSE "sendCode",
                      state |-> q.state, error |-> q.error, code |-> q.code,
                      at |-> apc, failure |-> failure,
                      hresp |-> IF failure # "" THEN 0 ELSE 200]]
    /\ arrivals' = Append(arrivals, k)
    /\ UNCHANGED <<apc, aresult, codeChan, errChan, exchanges, listening, spc>>

\* errChan <- err, then http.Error(w, ..., 400) and return
SendErr(k) ==
    /\ cb[k].hpc = "sendErr"
    /\ Len(errChan) < ChanCap
    /\ errChan' = Append(errChan, cb[k].failure)
    /\ cb' = [cb EXCEPT ![k].hpc = "finished", ![k].hresp = 400]
    /\ UNCHANGED <<apc, aresult, codeChan, arrivals, exchanges, listening, spc>>

\* codeChan <- code, after the success page was written
SendCode(k) ==
    /\ cb[k].hpc = "sendCode"
    /\ Len(codeChan) < ChanCap
    /\ codeChan' = Append(codeChan, [code |-> cb[k].code, from |-> k])
    /\ cb' = [cb EXCEPT ![k].hpc = "finished"]
    /\ UNCHANGED <<apc, aresult, errChan, arrivals, exchanges, listening, spc>>

\* server.Serve returns an error other than ErrServerClosed
ServeError ==
    /\ spc = "serving"
    /\ apc \in {"select", "exchange", "shutdown"}
    /\ spc' = "sendErr"
    /\ UNCHANGED <<apc, aresult, codeChan, errChan, cb, arrivals, exchanges, listening>>

ServeSend ==
    /\ spc = "sendErr"
    /\ Len(errChan) < ChanCap
    /\ errChan' = Append(errChan, ErrServe)
    /\ spc' = "exited"
    /\ UNCHANGED <<apc, aresult, codeChan, cb, arrivals, exchanges, listening>>

\* case code := <-codeChan: the exchange request is sent
SelectCode ==
    /\ apc = "select"
    /\ codeChan # <<>>
    /\ exchanges' = Append(exchanges, Head(codeChan))
    /\ codeChan' = Tail(codeChan)
    /\ apc' = "exchange"
    /\ UNCHANGED <<aresult, errChan, cb, arrivals, listening, spc>>

\* exchangeCodeForTokens returns; the credential is built from its answer
ExchangeReturn ==
    /\ apc = "exchange"
    /\ \E rsp \in ExchangeResponses : aresult' = ExchangeResult(rsp, now)
    /\ apc' = "shutdown"
    /\ UNCHANGED <<codeChan, errChan, cb, arrivals, exchanges, listening, spc>>

\* case err := <-errChan
SelectErr ==
    /\ apc = "select"
    /\ errChan # <<>>
    /\ aresult' = Failed(Head(errChan))
    /\ errChan' = Tail(errChan)
    /\ apc' = "shutdown"
    /\ UNCHANGED <<codeChan, cb, arrivals, exchanges, listening, spc>>

\* the caller cancels ctx (or its deadline passes) while Authenticate runs
CtxCancel ==
    /\ ctxDone = ""
    /\ apc \in {"select", "exchange"}
    /\ ctxDone' = apc
    /\ UNCHANGED <<apc, aresult, codeChan, errChan, cb, arrivals, exchanges, listening, spc>>

\* case <-ctx.Done()
SelectCtx ==
    /\ apc = "select"
    /\ ctxDone # ""
    /\ aresult' = Failed(ErrContext)
    /\ apc' = "shutdown"
    /\ UNCHANGED <<codeChan, errChan, cb, arrivals, exchanges, listening, spc>>

\* case <-time.After(5 * time.Minute)
SelectTimeout ==
    /\ apc = "select"
    /\ aresult' = Failed(ErrTimeout)
    /\ apc' = "shutdown"
    /\ UNCHANGED <<codeChan, errChan, cb, arrivals, exchanges, listening, spc>>

\* the deferred server.Shutdown closes the listener; Serve returns ErrServerClosed
ShutdownBegin ==
    /\ apc = "shutdown"
    /\ listening' = FALSE
    /\ spc' = IF spc = "serving" THEN "exited" ELSE spc
    /\ apc' = "draining"
    /\ UNCHANGED <<aresult, codeChan, errChan, cb, arrivals, exchanges>>

\* server.Shutdown(context.Background()) returns once no handler is running
ShutdownEnd ==
    /\ apc = "draining"
    /\ \A k \in CallbackIds : ~InFlight(k)
    /\ apc' = "returned"
    /\ UNCHANGED <<aresult, codeChan, errChan, cb, arrivals, exchanges, listening, spc>>

InitAuth ==
    /\ ChatIdle /\ TokenIdle /\ AuthIdle /\ TransIdle /\ FileIdle /\ DeviceIdle
    /\ cred = NoCred /\ disk = NoFile

NextAuth ==
    \/ AuthStart /\ UNCHANGED <<tokenVars, dbVars, chatVars, streamVars, transVars, fileVars, deviceVars, ctxDone>>
    \/ \E k \in CallbackIds : Arrive(k) /\ UNCHANGED <<tokenVars, dbVars, chatVars, streamVars, transVars, fileVars, deviceVars, ctxDone>>
    \/ \E k \in CallbackIds : SendErr(k) /\ UNCHANGED <<tokenVars, dbVars, chatVars, streamVars, transVars, fileVars, deviceVars, ctxDone>>
    \/ \E k \in CallbackIds : SendCode(k) /\ UNCHANGED <<tokenVars, dbVars, chatVars, streamVars, transVars, fileVars, deviceVars, ctxDone>>
    \/ ServeError /\ UNCHANGED <<tokenVars, dbVars, chatVars, streamVars, transVars, fileVars, deviceVars, ctxDone>>
    \/ ServeSend /\ UNCHANGED <<tokenVars, dbVars, chatVars, streamVars, transVars, fileVars, deviceVars, ctxDone>>
    \/ SelectCode /\ UNCHANGED <<tokenVars, dbVars, chatVars, streamVars, transVars, fileVars, deviceVars, ctxDone>>
    \/ ExchangeReturn /\ UNCHANGED <<tokenVars, dbVars, chatVars, streamVars, transVars, fileVars, deviceVars, ctxDone>>
    \/ SelectErr /\ UNCHANGED <<tokenVars, dbVars, chatVars, streamVars, transVars, fileVars, deviceVars, ctxDone>>
    \/ SelectCtx /\ UNCHANGED <<tokenVars, dbVars, chatVars, streamVars, transVars, fileVars, deviceVars, ctxDone>>
    \/ SelectTimeout /\ UNCHANGED <<tokenVars, dbVars, chatVars, streamVars, transVars, fileVars, deviceVars, ctxDone>>
    \/ ShutdownBegin /\ UNCHANGED <<tokenVars, dbVars, chatVars, streamVars, transVars, fileVars, deviceVars, ctxDone>>
    \/ ShutdownEnd /\ UNCHANGED <<tokenVars, dbVars, chatVars, streamVars, transVars, fileVars, deviceVars, ctxDone>>
    \/ CtxCancel /\ UNCHANGED <<tokenVars, dbVars, chatVars, streamVars, transVars, fileVars, deviceVars>>

SpecAuth == InitAuth /\ [][NextAuth]_vars

(***************************************************************************)
(* The account id of a token response: extractAccountIDFromJWT and the     *)
(* code branch of Authenticate's select.  A token is a record of what      *)
(* extractAccountIDFromJWT looks at: the number of                         *)
(* dot-separated parts, the encoding of the middle part, whether its       *)
(* payload unmarshals into the claims struct, and the claims.              *)
(***************************************************************************)
JWT(parts, encoding, json, top, auth, orgs) ==
    [parts |-> parts, encoding |-> encoding, json |-> json,
     top |-> top, auth |-> auth, orgs |-> orgs]

\* the empty string: strings.Split gives one part
EmptyToken == JWT(1, "rawurl", FALSE, "", <<>>, <<>>)

\* claims.Auth is a pointer: <<>> is nil, <<id>> the nested struct
AuthClaims == {<<>>, <<"">>, <<"ns">>}
OrganizationClaims == {<<>>, <<"">>, <<"o1">>, <<"o1", "o2">>, <<"", "o2">>}

\* a token with every claim set that is cut short, badly encoded or not JSON
Undecodable ==
    { JWT(2, "rawurl", TRUE, "top", <<"ns">>, <<"o1">>),
      JWT(4, "rawurl", TRUE, "top", <<"ns">>, <<"o1">>),
      JWT(3, "bad", TRUE, "top", <<"ns">>, <<"o1">>),
      JWT(3, "rawurl", FALSE, "top", <<"ns">>, <<"o1">>) }

Tokens ==
    {EmptyToken}
    \cup { JWT(3, "rawurl", TRUE, top, auth, orgs) :
             top \in {"", "top"}, auth \in AuthClaims, orgs \in OrganizationClaims }
    \cup { JWT(3, "std", TRUE, "", <<>>, <<"o1">>) }
    \cup Undecodable

\* base64.RawURLEncoding.DecodeString, then base64.StdEncoding.DecodeString
PayloadDecodes(token) == token.encoding = "rawurl" \/ token.encoding = "std"

ExtractOrganizationFirst(token) ==
    IF token.parts # 3 THEN ""
    ELSE IF ~PayloadDecodes(token) THEN ""
    ELSE IF ~token.json THEN ""
    ELSE IF token.orgs # <<>> THEN token.orgs[1]
    ELSE IF token.top # "" THEN token.top
    ELSE IF token.auth # <<>> /\ token.auth[1] # "" THEN token.auth[1]
    ELSE ""

extractAccountIDFromJWT(token) ==
    IF token.parts # 3 THEN ""
    ELSE IF ~PayloadDecodes(token) THEN ""
    ELSE IF ~token.json THEN ""
    ELSE IF token.top # "" THEN token.top
    ELSE IF token.auth # <<>> /\ token.auth[1] # "" THEN token.auth[1]
    ELSE IF token.orgs # <<>> THEN token.orgs[1]
    ELSE ""

\* lines 480-486: id_token first, access_token when that gave nothing
AccountID(tokenResp) ==
    LET accountID == IF tokenResp.idToken # EmptyToken
                     THEN extractAccountIDFromJWT(tokenResp.idToken)
                     ELSE ""
    IN  IF accountID = "" /\ tokenResp.accessToken # EmptyToken
        THEN extractAccountIDFromJWT(tokenResp.accessToken)
        ELSE accountID

TokenPairs == [idToken : Tokens, accessToken : Tokens]

\* exchangeCodeForTokens has returned tokenResp without error; the credential is built
AccountReturn ==
    /\ apc = "exchange"
    /\ \E tokenResp \in TokenPairs :
         /\ exchanges' = Append(exchanges, tokenResp)
         /\ aresult' = Authenticated(Credentials(tokenResp.accessToken, "rt1",
                                                 now + LongLife, AccountID(tokenResp)))
    /\ apc' = "shutdown"
    /\ UNCHANGED <<codeChan, errChan, cb, arrivals, listening, spc, ctxDone>>
    /\ UNCHANGED <<tokenVars, dbVars, chatVars, streamVars, transVars, fileVars, deviceVars>>

InitAccount ==
    /\ ChatIdle /\ TokenIdle /\ TransIdle /\ FileIdle /\ DeviceIdle
    /\ cred = NoCred /\ disk = NoFile
    /\ apc = "exchange"
    /\ aresult = NoResult
    /\ codeChan = <<>>
    /\ errChan = <<>>
    /\ cb = [k \in CallbackIds |-> NoCallback]
    /\ arrivals = <<>>
    /\ exchanges = <<>>
    /\ listening = TRUE
    /\ spc = "serving"
    /\ ctxDone = ""

NextAccount == AccountReturn

SpecAccount == InitAccount /\ [][NextAccount]_vars

(***************************************************************************)
(* oauth.AuthenticateDevice: the device code request, then the poll loop.  *)
(* The two timers of the select are events of the environment: the         *)
(* deadline fires once, the poll interval elapses whenever the loop waits. *)
(***************************************************************************)
ErrDeviceRequest == "device auth request"
ErrDeviceTimeout == "device authentication timed out"
ErrDeviceTokenRequest == "device token request"
ErrDeviceDecode == "decoding device token response"
ErrDeviceAuth == "device auth error"
AuthorizationPending == "authorization_pending"

\* how step 1 can end: a usable answer, or one of its error returns
DeviceRequestOutcomes == {"ok", "transport", "status", "decode", "interval"}

\* what the device token endpoint answers to one poll
PollAnswer(transport, json, error, code) ==
    [transport |-> transport, json |-> json, error |-> error, code |-> code]

PollAnswers ==
    { PollAnswer(TRUE, TRUE, e, c) :
        e \in {"", AuthorizationPending, "access_denied", "expired_token"},
        c \in {"", "ac1"} }
    \cup { PollAnswer(FALSE, FALSE, "", ""), PollAnswer(TRUE, FALSE, "", "") }

\* pollDeviceToken up to the code exchange: what it does with the answer
pollDeviceToken(answer) ==
    IF ~answer.transport THEN [next |-> "returned", err |-> ErrDeviceTokenRequest]
    ELSE IF ~answer.json THEN [next |-> "returned", err |-> ErrDeviceDecode]
    ELSE IF answer.error = AuthorizationPending \/ answer.code = ""
    THEN [next |-> "select", err |-> ""]
    ELSE IF answer.error # "" THEN [next |-> "returned", err |-> ErrDeviceAuth]
    ELSE [next |-> "exchange", err |-> ""]

\* lines 239-300: the device code request and the instructions
DeviceRequest ==
    /\ dpc = "request"
    /\ \E o \in DeviceRequestOutcomes :
         IF o = "ok"
         THEN dpc' = "select" /\ UNCHANGED dresult
         ELSE dpc' = "returned" /\ dresult' = Failed(ErrDeviceRequest)
    /\ UNCHANGED <<polls, deadline, devCtx>>

\* time.After(expiresIn) fires
DeadlineFires ==
    /\ dpc \notin {"request", "returned"}
    /\ ~deadline
    /\ deadline' = TRUE
    /\ UNCHANGED <<dpc, polls, devCtx, dresult>>

\* the caller cancels ctx
DeviceCancel ==
    /\ dpc \notin {"request", "returned"}
    /\ ~devCtx
    /\ devCtx' = TRUE
    /\ UNCHANGED <<dpc, polls, deadline, dresult>>

\* case <-ctx.Done()
DeviceSelectCtx ==
    /\ dpc = "select"
    /\ devCtx
    /\ dpc' = "returned"
    /\ dresult' = Failed(ErrContext)
    /\ UNCHANGED <<polls, deadline, devCtx>>

\* case <-deadline
DeviceSelectDeadline ==
    /\ dpc = "select"
    /\ deadline
    /\ dpc' = "returned"
    /\ dresult' = Failed(ErrDeviceTimeout)
    /\ UNCHANGED <<polls, deadline, devCtx>>

\* case <-time.After(pollInterval)
DeviceSelectPoll ==
    /\ dpc = "select"
    /\ Len(polls) < MaxPolls
    /\ dpc' = "poll"
    /\ UNCHANGED <<polls, deadline, devCtx, dresult>>

\* lines 315-321 with pollDeviceToken lines 347-385
DevicePoll ==
    /\ dpc = "poll"
    /\ \E answer \in PollAnswers :
         /\ polls' = Append(polls, answer)
         /\ dpc' = pollDeviceToken(answer).next
         /\ IF pollDeviceToken(answer).err # ""
            THEN dresult' = Failed(pollDeviceToken(answer).err)
            ELSE UNCHANGED dresult
    /\ UNCHANGED <<deadline, devCtx>>

\* pollDeviceToken lines 388-406: the code exchange and the credential
DeviceExchange ==
    /\ dpc = "exchange"
    /\ \E rsp \in ExchangeResponses : dresult' = ExchangeResult(rsp, now)
    /\ dpc' = "returned"
    /\ UNCHANGED <<polls, deadline, devCtx>>

InitDevice ==
    /\ ChatIdle /\ TokenIdle /\ AuthIdle /\ TransIdle /\ FileIdle
    /\ cred = NoCred /\ disk = NoFile
    /\ dpc = "request"
    /\ polls = <<>>
    /\ deadline = FALSE
    /\ devCtx = FALSE
    /\ dresult = NoResult

NextDevice ==
    \/ DeviceRequest /\ UNCHANGED <<tokenVars, dbVars, chatVars, streamVars, authVars, transVars, fileVars>>
    \/ DeadlineFires /\ UNCHANGED <<tokenVars, dbVars, chatVars, streamVars, authVars, transVars, fileVars>>
    \/ DeviceCancel /\ UNCHANGED <<tokenVars, dbVars, chatVars, streamVars, authVars, transVars, fileVars>>
    \/ DeviceSelectCtx /\ UNCHANGED <<tokenVars, dbVars, chatVars, streamVars, authVars, transVars, fileVars>>
    \/ DeviceSelectDeadline /\ UNCHANGED <<tokenVars, dbVars, chatVars, streamVars, authVars, transVars, fileVars>>
    \/ DeviceSelectPoll /\ UNCHANGED <<tokenVars, dbVars, chatVars, streamVars, authVars, transVars, fileVars>>
    \/ DevicePoll /\ UNCHANGED <<tokenVars, dbVars, chatVars, streamVars, authVars, transVars, fileVars>>
    \/ DeviceExchange /\ UNCHANGED <<tokenVars, dbVars, chatVars, streamVars, authVars, transVars, fileVars>>

SpecDevice == InitDevice /\ [][NextDevice]_vars

(***************************************************************************)
(* chat.StreamCompletion on its own: the goroutine of either variant fed   *)
(* one upstream response, and a consumer ranging over the delta channel.   *)
(***************************************************************************)
Variants == {"legacy", "responses"}

\* one line of a response body: whether it starts with "data: ", whether the rest
\* is "[DONE]", whether it parses as JSON, and the fields the variants read from
\* it: type and delta (responses), choices and choices[0].delta.content (legacy)
WireLine(prefixed, done, json, type, delta, choices, content) ==
    [prefixed |-> prefixed, done |-> done, json |-> json, type |-> type,
     delta |-> delta, choices |-> choices, content |-> content]

Hello == <<"H", "e", "l", "l", "o">>

EventLine == WireLine(FALSE, FALSE, TRUE, "response.completed", <<>>, 1, <<"z">>)
DoneLine == WireLine(TRUE, TRUE, FALSE, "", <<>>, 0, <<>>)
MalformedLine == WireLine(TRUE, FALSE, FALSE, "", <<>>, 0, <<>>)
ChunkLine(content) == WireLine(TRUE, FALSE, TRUE, "", <<>>, 1, content)
TextDeltaLine(delta) ==
    WireLine(TRUE, FALSE, TRUE, "response.output_text.delta", delta, 0, <<>>)
CompletedLine == WireLine(TRUE, FALSE, TRUE, "response.completed", <<>>, 0, <<>>)
OtherEventLine == WireLine(TRUE, FALSE, TRUE, "response.created", <<"x">>, 0, <<>>)

WireAlphabet ==
    { EventLine, DoneLine, MalformedLine,
      ChunkLine(<<"a">>), ChunkLine(<<"b", "c">>), ChunkLine(<<>>),
      TextDeltaLine(Hello), TextDeltaLine(<<"b", "c">>), TextDeltaLine(<<>>),
      CompletedLine, OtherEventLine }

Wires == UNION { [1..n -> WireAlphabet] : n \in 0..MaxWire }

\* what http.DefaultClient.Do returns: a transport failure (status 0), a status
\* other than 200 with its body text, or 200 with a body of lines
UpstreamResponses ==
    {[status |-> 0, text |-> "", lines |-> <<>>]}
    \cup [status : {201, 404}, text : {"", "oops"}, lines : {<<>>}]
    \cup [status : {200}, text : {""}, lines : Wires]

XError(e, code, text) ==
    [kind |-> "error", content |-> <<>>, done |-> FALSE, err |-> e,
     status |-> code, text |-> text]
XDelta(content, done) ==
    [kind |-> "delta", content |-> content, done |-> done, err |-> "",
     status |-> 0, text |-> ""]

\* client.go lines 78-100: what one scanned line makes the legacy goroutine do
ScanLineLegacyJSONFirst(line) ==
    IF ~line.prefixed THEN [do |-> "skip", content |-> <<>>]
    ELSE IF ~line.json THEN [do |-> "skip", content |-> <<>>]
    ELSE IF line.done THEN [do |-> "done", content |-> <<>>]
    ELSE IF line.choices > 0 /\ line.content # <<>>
         THEN [do |-> "emit", content |-> line.content]
    ELSE [do |-> "skip", content |-> <<>>]

ScanLineLegacy(line) ==
    IF ~line.prefixed THEN [do |-> "skip", content |-> <<>>]
    ELSE IF line.done THEN [do |-> "done", content |-> <<>>]
    ELSE IF ~line.json THEN [do |-> "skip", content |-> <<>>]
    ELSE IF line.choices > 0 /\ line.content # <<>>
         THEN [do |-> "emit", content |-> line.content]
    ELSE [do |-> "skip", content |-> <<>>]

\* a payload that is not JSON ends the stream
ScanLineOfStrict(v, line) ==
    IF line.prefixed /\ ~line.json /\ ~line.done
    THEN [do |-> "done", content |-> <<>>]
    ELSE IF v = "legacy" THEN ScanLineLegacy(line) ELSE ScanLine(line)

ScanLineOf(v, line) == IF v = "legacy" THEN ScanLineLegacy(line) ELSE ScanLine(line)

\* the status check after Do: only 200 is streamed
StatusRejectedNever(code) == FALSE
StatusRejected(code) == code # 200

\* Do and the status check (part_002 lines 81-92, client.go lines 63-74)
TransDo ==
    /\ xpc = "do"
    /\ requests' = requests + 1
    /\ IF upstream.status = 0
       THEN /\ xErrCh' = Append(xErrCh, XError("API request", 0, ""))
            /\ produced' = Append(produced, XError("API request", 0, ""))
            /\ xpc' = "closeErr"
       ELSE IF StatusRejected(upstream.status)
       THEN /\ xErrCh' = Append(xErrCh, XError("API error", upstream.status, upstream.text))
            /\ produced' = Append(produced,
                                  XError("API error", upstream.status, upstream.text))
            /\ xpc' = "closeErr"
       ELSE /\ xpc' = "scan"
            /\ UNCHANGED <<xErrCh, produced>>
    /\ UNCHANGED <<variant, upstream, scanned, xDeltaCh, xDeltaClosed, xErrClosed, received>>

\* one scanner.Scan() that returns a line, and the loop body for it
TransScan ==
    /\ xpc = "scan"
    /\ scanned < Len(upstream.lines)
    /\ scanned' = scanned + 1
    /\ LET a == ScanLineOf(variant, upstream.lines[scanned + 1])
       IN CASE a.do = "emit" ->
                 /\ Len(xDeltaCh) < DeltaBuf
                 /\ xDeltaCh' = Append(xDeltaCh, XDelta(a.content, FALSE))
                 /\ produced' = Append(produced, XDelta(a.content, FALSE))
                 /\ UNCHANGED xpc
            [] a.do = "done" ->
                 /\ Len(xDeltaCh) < DeltaBuf
                 /\ xDeltaCh' = Append(xDeltaCh, XDelta(<<>>, TRUE))
                 /\ produced' = Append(produced, XDelta(<<>>, TRUE))
                 /\ xpc' = "closeErr"
            [] OTHER ->
                 UNCHANGED <<xDeltaCh, produced, xpc>>
    /\ UNCHANGED <<variant, upstream, requests, xDeltaClosed, xErrCh, xErrClosed, received>>

\* scanner.Scan() returns false at the end of the body: scanner.Err() is nil
TransEOF ==
    /\ xpc = "scan"
    /\ scanned = Len(upstream.lines)
    /\ xpc' = "closeErr"
    /\ UNCHANGED <<variant, upstream, scanned, requests, xDeltaCh, xDeltaClosed, xErrCh,
                   xErrClosed, produced, received>>

\* scanner.Scan() returns false on a read error, wherever the body stands
TransReadErrorRetry ==
    /\ xpc = "scan"
    /\ requests < 2
    /\ requests' = requests + 1
    /\ scanned' = 0
    /\ UNCHANGED <<variant, upstream, xpc, xDeltaCh, xDeltaClosed, xErrCh, xErrClosed,
                   produced, received>>

TransReadError ==
    /\ xpc = "scan"
    /\ xErrCh' = Append(xErrCh, XError("reading stream", 0, ""))
    /\ produced' = Append(produced, XError("reading stream", 0, ""))
    /\ xpc' = "closeErr"
    /\ UNCHANGED <<variant, upstream, scanned, requests, xDeltaCh, xDeltaClosed,
                   xErrClosed, received>>

\* defer close(errCh), run first
TransCloseDeltaFirst ==
    /\ xpc = "closeErr"
    /\ xDeltaClosed' = TRUE
    /\ xpc' = "closeDelta"
    /\ UNCHANGED <<variant, upstream, scanned, requests, xDeltaCh, xErrClosed, xErrCh,
                   produced, received>>

TransCloseErr ==
    /\ xpc = "closeErr"
    /\ xErrClosed' = TRUE
    /\ xpc' = "closeDelta"
    /\ UNCHANGED <<variant, upstream, scanned, requests, xDeltaCh, xDeltaClosed, xErrCh,
                   produced, received>>

\* defer close(deltaCh), run last
TransCloseDelta ==
    /\ xpc = "closeDelta"
    /\ xDeltaClosed' = TRUE
    /\ xpc' = "exited"
    /\ UNCHANGED <<variant, upstream, scanned, requests, xDeltaCh, xErrCh, xErrClosed,
                   produced, received>>

\* the consumer takes the next delta: a closed channel still yields what it holds
Receive ==
    /\ xDeltaCh # <<>>
    /\ received' = Append(received, Head(xDeltaCh))
    /\ xDeltaCh' = Tail(xDeltaCh)
    /\ UNCHANGED <<variant, upstream, xpc, scanned, requests, xDeltaClosed, xErrCh,
                   xErrClosed, produced>>

InitStream ==
    /\ ChatIdle /\ TokenIdle /\ AuthIdle /\ FileIdle /\ DeviceIdle
    /\ cred = NoCred /\ disk = NoFile
    /\ variant \in Variants
    /\ upstream \in UpstreamResponses
    /\ xpc = "do"
    /\ scanned = 0
    /\ requests = 0
    /\ xDeltaCh = <<>>
    /\ xDeltaClosed = FALSE
    /\ xErrCh = <<>>
    /\ xErrClosed = FALSE
    /\ produced = <<>>
    /\ received = <<>>

NextStream ==
    \/ TransDo /\ UNCHANGED <<tokenVars, dbVars, chatVars, streamVars, authVars, fileVars, deviceVars>>
    \/ TransScan /\ UNCHANGED <<tokenVars, dbVars, chatVars, streamVars, authVars, fileVars, deviceVars>>
    \/ TransEOF /\ UNCHANGED <<tokenVars, dbVars, chatVars, streamVars, authVars, fileVars, deviceVars>>
    \/ TransReadError /\ UNCHANGED <<tokenVars, dbVars, chatVars, streamVars, authVars, fileVars, deviceVars>>
    \/ TransCloseErr /\ UNCHANGED <<tokenVars, dbVars, chatVars, streamVars, authVars, fileVars, deviceVars>>
    \/ TransCloseDelta /\ UNCHANGED <<tokenVars, dbVars, chatVars, streamVars, authVars, fileVars, deviceVars>>
    \/ Receive /\ UNCHANGED <<tokenVars, dbVars, chatVars, streamVars, authVars, fileVars, deviceVars>>

SpecStream == InitStream /\ [][NextStream]_vars

(***************************************************************************)
(* StreamCompletion against a body of more content frames than the delta   *)
(* channel buffers, with a consumer that may stop receiving.  The          *)
(* goroutine is scheduled whenever it can take a step.                     *)
(***************************************************************************)
LongBody(v) ==
    [i \in 1..(DeltaBuf + 1) |->
        IF v = "legacy" THEN ChunkLine(<<"a">>) ELSE TextDeltaLine(<<"b", "c">>)]

InitLongStream ==
    /\ ChatIdle /\ TokenIdle /\ AuthIdle /\ FileIdle /\ DeviceIdle
    /\ cred = NoCred /\ disk = NoFile
    /\ variant \in Variants
    /\ upstream = [status |-> 200, text |-> "", lines |-> LongBody(variant)]
    /\ xpc = "do"
    /\ scanned = 0
    /\ requests = 0
    /\ xDeltaCh = <<>>
    /\ xDeltaClosed = FALSE
    /\ xErrCh = <<>>
    /\ xErrClosed = FALSE
    /\ produced = <<>>
    /\ received = <<>>

GoroutineStep ==
    /\ TransDo \/ TransScan \/ TransEOF \/ TransCloseErr \/ TransCloseDelta
    /\ UNCHANGED <<tokenVars, dbVars, chatVars, streamVars, authVars, fileVars, deviceVars>>

SpecLongStream == InitLongStream /\ [][NextStream]_vars /\ WF_vars(GoroutineStep)

(***************************************************************************)
(* client.Client: ChatStream reading the frames of POST /chat, and         *)
(* ChatText over its two channels.                                         *)
(***************************************************************************)
\* one line of the server's response: whether it starts with "data: ",
\* whether the rest is "[DONE]", whether it parses as JSON, and the fields
\* content and error of the chunk
ClientLine(prefixed, done, json, content, error) ==
    [prefixed |-> prefixed, done |-> done, json |-> json, content |-> content,
     error |-> error]

ClientAlphabet ==
    { ClientLine(FALSE, FALSE, FALSE, <<>>, ""),
      ClientLine(TRUE, TRUE, FALSE, <<>>, ""),
      ClientLine(TRUE, FALSE, FALSE, <<>>, ""),
      ClientLine(TRUE, FALSE, TRUE, <<"a">>, ""),
      ClientLine(TRUE, FALSE, TRUE, <<"b", "c">>, ""),
      ClientLine(TRUE, FALSE, TRUE, <<>>, ""),
      ClientLine(TRUE, FALSE, TRUE, <<>>, "boom"),
      ClientLine(TRUE, FALSE, TRUE, <<"a">>, "boom") }

\* what c.httpClient.Do returns
ServerResponses ==
    {[status |-> 0, text |-> "", lines |-> <<>>]}
    \cup [status : {400, 500}, text : {"oops"}, lines : {<<>>}]
    \cup [status : {200}, text : {""},
          lines : UNION { [1..n -> ClientAlphabet] : n \in 0..MaxWire }]

\* client.go lines 107-129: what one scanned line makes the goroutine do
ScanLineClient(line) ==
    IF ~line.prefixed THEN [do |-> "skip", content |-> <<>>, err |-> ""]
    ELSE IF line.done THEN [do |-> "stop", content |-> <<>>, err |-> ""]
    ELSE IF ~line.json THEN [do |-> "skip", content |-> <<>>, err |-> ""]
    ELSE IF line.error # "" THEN [do |-> "fail", content |-> <<>>, err |-> line.error]
    ELSE IF line.content # <<>> THEN [do |-> "emit", content |-> line.content, err |-> ""]
    ELSE [do |-> "skip", content |-> <<>>, err |-> ""]

\* lines 69-103: the message check, the request, the status check
ClientDo ==
    /\ xpc = "do"
    /\ \E message \in {<<>>, <<" ">>, <<"h", "i">>} :
         LET e == IF TrimSpace(message) = <<>> THEN XError("message is required", 0, "")
                  ELSE IF upstream.status = 0 THEN XError("chat request", 0, "")
                  ELSE IF upstream.status # 200
                  THEN XError("chat request failed", upstream.status, upstream.text)
                  ELSE XDelta(<<>>, FALSE)
         IN /\ requests' = IF TrimSpace(message) = <<>> THEN requests ELSE requests + 1
            /\ IF e.kind = "error"
               THEN /\ xErrCh' = Append(xErrCh, e)
                    /\ produced' = Append(produced, e)
                    /\ xpc' = "closeErr"
               ELSE /\ xpc' = "scan"
                    /\ UNCHANGED <<xErrCh, produced>>
    /\ UNCHANGED <<variant, upstream, scanned, xDeltaCh, xDeltaClosed, xErrClosed, received>>

\* one scanner.Scan() that returns a line, and the loop body for it
ClientScan ==
    /\ xpc = "scan"
    /\ scanned < Len(upstream.lines)
    /\ scanned' = scanned + 1
    /\ LET a == ScanLineClient(upstream.lines[scanned + 1])
       IN CASE a.do = "emit" ->
                 /\ Len(xDeltaCh) < DeltaBuf
                 /\ xDeltaCh' = Append(xDeltaCh, XDelta(a.content, FALSE))
                 /\ produced' = Append(produced, XDelta(a.content, FALSE))
                 /\ UNCHANGED <<xpc, xErrCh>>
            [] a.do = "fail" ->
                 /\ xErrCh' = Append(xErrCh, XError(a.err, 0, ""))
                 /\ produced' = Append(produced, XError(a.err, 0, ""))
                 /\ xpc' = "closeErr"
                 /\ UNCHANGED xDeltaCh
            [] a.do = "stop" ->
                 /\ xpc' = "closeErr"
                 /\ UNCHANGED <<xDeltaCh, xErrCh, produced>>
            [] OTHER ->
                 UNCHANGED <<xDeltaCh, xErrCh, produced, xpc>>
    /\ UNCHANGED <<variant, upstream, requests, xDeltaClosed, xErrClosed, received>>

RECURSIVE WriteAll(_)
\* ChatText lines 143-146: full.WriteString(delta.Content) for every delta
WriteAll(deltas) ==
    IF deltas = <<>> THEN <<>> ELSE Head(deltas).content \o WriteAll(Tail(deltas))

\* ChatText has left its range loop: the delta channel is closed and empty
ChatTextReturned == variant = "client" /\ xDeltaClosed /\ xDeltaCh = <<>>

\* ChatText lines 148-156: what it returns once the loop has ended
ChatText ==
    IF xErrCh # <<>> THEN [text |-> <<>>, err |-> xErrCh[1].err]
    ELSE [text |-> WriteAll(received), err |-> ""]

InitClient ==
    /\ ChatIdle /\ TokenIdle /\ AuthIdle /\ FileIdle /\ DeviceIdle
    /\ cred = NoCred /\ disk = NoFile
    /\ variant = "client"
    /\ upstream \in ServerResponses
    /\ xpc = "do"
    /\ scanned = 0
    /\ requests = 0
    /\ xDeltaCh = <<>>
    /\ xDeltaClosed = FALSE
    /\ xErrCh = <<>>
    /\ xErrClosed = FALSE
    /\ produced = <<>>
    /\ received = <<>>

NextClient ==
    \/ ClientDo /\ UNCHANGED <<tokenVars, dbVars, chatVars, streamVars, authVars, fileVars, deviceVars>>
    \/ ClientScan /\ UNCHANGED <<tokenVars, dbVars, chatVars, streamVars, authVars, fileVars, deviceVars>>
    \/ TransEOF /\ UNCHANGED <<tokenVars, dbVars, chatVars, streamVars, authVars, fileVars, deviceVars>>
    \/ TransReadError /\ UNCHANGED <<tokenVars, dbVars, chatVars, streamVars, authVars, fileVars, deviceVars>>
    \/ TransCloseErr /\ UNCHANGED <<tokenVars, dbVars, chatVars, streamVars, authVars, fileVars, deviceVars>>
    \/ TransCloseDelta /\ UNCHANGED <<tokenVars, dbVars, chatVars, streamVars, authVars, fileVars, deviceVars>>
    \/ Receive /\ UNCHANGED <<tokenVars, dbVars, chatVars, streamVars, authVars, fileVars, deviceVars>>

SpecClient == InitClient /\ [][NextClient]_vars

(***************************************************************************)
(* Claims about oauth.Authenticate                                         *)
(***************************************************************************)
MismatchDuringWait(k) ==
    /\ cb[k].hpc # "none"
    /\ cb[k].state # GeneratedState
    /\ cb[k].at = "select"

\* C5: a callback whose state differs from the generated one makes the attempt
\* fail and no token exchange request is sent, whatever other callbacks
\* arrive.  Stated for mismatching callbacks that arrive while Authenticate
\* waits in its select, and asking only that the attempt returns an error and
\* sent no exchange (the claim further asks that the error is the CSRF one).
C5_MismatchFailsAttempt ==
    (apc = "returned" /\ \E k \in CallbackIds : MismatchDuringWait(k))
        => (aresult.kind = "err" /\ exchanges = <<>>)

\* C6: once one callback has been received, a second callback carrying a
\* different state is rejected and the attempt does not return a credential.
C6_SecondCallbackFailsAttempt ==
    ( /\ apc = "returned"
      /\ Len(arrivals) >= 2
      /\ cb[arrivals[2]].state # cb[arrivals[1]].state
      /\ cb[arrivals[2]].state # GeneratedState
      /\ cb[arrivals[2]].at \in {"select", "exchange"} )
        => ( /\ cb[arrivals[2]].hresp = 400
             /\ aresult.kind # "cred" )

\* the callback carries the generated state and a provider error
ProviderRejected(k) ==
    cb[k].hpc # "none" /\ cb[k].state = GeneratedState /\ cb[k].error # ""

\* C34: the handler checks state, then error, then code.  A callback with
\* matching state and an error parameter reports the provider's rejection,
\* is answered 400 and never hands over its code, with or without a code
\* parameter; when it is the only callback of the attempt and arrived
\* during the wait, the attempt fails and no exchange is sent, and the
\* error is the provider's rejection once it was taken from the channel.
\* Every exchange sent carries the non-empty code of a callback with
\* matching state and no error parameter.
C34_CheckOrder ==
    /\ \A k \in CallbackIds :
          ProviderRejected(k)
            => /\ cb[k].failure = ErrOAuth
               /\ cb[k].hpc \in {"sendErr", "finished"}
               /\ cb[k].hpc = "finished" => cb[k].hresp = 400
               /\ \A i \in 1..Len(exchanges) : exchanges[i].from # k
               /\ \A i \in 1..Len(codeChan) : codeChan[i].from # k
               /\ (apc = "returned" /\ arrivals = <<k>> /\ cb[k].at = "select")
                    => /\ aresult.kind = "err"
                       /\ exchanges = <<>>
                       /\ (cb[k].hpc = "finished" /\ errChan = <<>>)
                            => aresult.err = ErrOAuth
    /\ \A i \in 1..Len(exchanges) :
          LET k == exchanges[i].from
          IN /\ cb[k].state = GeneratedState
             /\ cb[k].error = ""
             /\ cb[k].code # ""
             /\ exchanges[i].code = cb[k].code

\* the only callback carried the right state, an error and a code: the
\* attempt returned the provider's rejection and sent no exchange
C34_Witness ==
    /\ apc = "returned" /\ arrivals = <<1>>
    /\ cb[1].state = GeneratedState /\ cb[1].error = "access_denied" /\ cb[1].code = "c1"
    /\ cb[1].hresp = 400
    /\ aresult = Failed(ErrOAuth)
    /\ exchanges = <<>>

\* handler k is at a channel send that can never complete: the channel's
\* buffer is full and Authenticate has left its select, the only receiver
BlockedForever(k) ==
    /\ apc \notin {"idle", "select"}
    /\ \/ cb[k].hpc = "sendErr" /\ Len(errChan) = ChanCap
       \/ cb[k].hpc = "sendCode" /\ Len(codeChan) = ChanCap

\* C39: no callback handler is ever at a channel send that can never
\* complete, however many callbacks arrive and in whatever order, and an
\* attempt sends at most one token exchange.
C39_HandlersFinish ==
    /\ \A k \in CallbackIds : ~BlockedForever(k)
    /\ Len(exchanges) <= 1

\* the token response an attempt's credential was built from
Resolved == apc = "shutdown" /\ Len(exchanges) = 1 /\ aresult.kind = "cred"

\* a token whose middle segment decodes and parses
Decodable(token) ==
    token # EmptyToken /\ token.parts = 3 /\ token.encoding \in {"rawurl", "std"} /\ token.json

\* the first non-empty of the three claims of a decodable token, else empty
ClaimedAccount(token) ==
    IF ~Decodable(token) THEN ""
    ELSE LET candidates == <<token.top,
                             IF token.auth = <<>> THEN "" ELSE token.auth[1],
                             IF token.orgs = <<>> THEN "" ELSE token.orgs[1]>>
         IN  IF \A i \in 1..3 : candidates[i] = "" THEN ""
             ELSE candidates[CHOOSE i \in 1..3 :
                               /\ candidates[i] # ""
                               /\ \A j \in 1..(i - 1) : candidates[j] = ""]

\* C32 as stated: the access token is looked at only when there is no id_token.
C32_Original ==
    Resolved =>
      aresult.cred.accountId =
        IF exchanges[1].idToken # EmptyToken THEN ClaimedAccount(exchanges[1].idToken)
        ELSE ClaimedAccount(exchanges[1].accessToken)

\* C32: the account id is the first non-empty claim (top-level account id, the
\* one nested under the auth namespace, the id of the first organization) of
\* the id_token, or of the access_token when the id_token is absent or gives
\* no account id; a token that does not decode gives the empty account id, and
\* the attempt returns a credential either way.
C32_AccountResolution ==
    /\ apc = "shutdown" => aresult.kind = "cred"
    /\ Resolved =>
         aresult.cred.accountId =
           IF ClaimedAccount(exchanges[1].idToken) # ""
           THEN ClaimedAccount(exchanges[1].idToken)
           ELSE ClaimedAccount(exchanges[1].accessToken)

\* an id_token that does not decode next to an access token whose only claim
\* is the organization list
C32_Witness ==
    /\ Resolved
    /\ exchanges[1].idToken \in Undecodable
    /\ Decodable(exchanges[1].accessToken)
    /\ exchanges[1].accessToken.top = ""
    /\ exchanges[1].accessToken.auth = <<"">>
    /\ aresult.cred.accountId = "o1"

\* the answer of the poll that a step of the flow has just received
Polled == polls'[Len(polls')]

\* C31: in the device-code flow each poll decides the next step: "pending" is
\* retried after the poll interval; an error the provider reports, other than
\* pending, ends the flow with an error; a completed authorization goes on to
\* the code exchange; and once the flow has returned it returned a credential
\* or an error (the provider's, the timeout, the cancellation).
C31_PollOutcomes ==
    [][ /\ Len(polls') = Len(polls) + 1 /\ Polled.transport /\ Polled.json
          => /\ Polled.error = AuthorizationPending
                  => dpc' = "select" /\ dresult' = NoResult
             /\ Polled.error \notin {"", AuthorizationPending}
                  => dpc' = "returned" /\ dresult'.kind = "err"
             /\ Polled.error = "" /\ Polled.code # ""
                  => dpc' = "exchange"
        /\ dpc' = "returned" => dresult'.kind \in {"cred", "err"} ]_vars

\* C30: an attempt whose caller cancelled while Authenticate was
\* exchanging the code ends in failure: once the attempt has left the
\* exchange its result is an error, never a credential.
C30_CancelFailsAttempt ==
    (ctxDone = "exchange" /\ apc \in {"shutdown", "draining", "returned"})
        => aresult.kind = "err"

(***************************************************************************)
(* Claims about POST /chat.                                                *)
(***************************************************************************)
Has(seq, x) == \E i \in 1..Len(seq) : seq[i] = x

IsPrefix(a, b) == Len(a) <= Len(b) /\ SubSeq(b, 1, Len(a)) = a

\* a message is blank when it holds nothing but whitespace
IsBlank(message) == \A i \in 1..Len(message) : message[i] \in Whitespace

RECURSIVE Flatten(_)
Flatten(texts) == IF texts = <<>> THEN <<>> ELSE Head(texts) \o Flatten(Tail(texts))

\* the texts of the content frames written downstream, in order
FrameTexts(frames) ==
    LET cs == SelectSeq(frames, LAMBDA f : f.frame = "content")
    IN [i \in 1..Len(cs) |-> cs[i].text]

\* the texts of the content deltas the transcoder emitted, in order
DeltaTexts(emitted) ==
    LET ds == SelectSeq(emitted, LAMBDA d : d.kind = "delta" /\ ~d.done)
    IN [i \in 1..Len(ds) |-> ds[i].content]

RowsOf(conv, role) == {m \in db : m.conv = conv /\ m.role = role}

StreamErrored(r) == \E i \in 1..Len(sent[r]) : sent[r][i].kind = "error"
ProducerEnded(r) == ppc[r] \in {"closeErr", "closeDelta", "exited"}

WriteEvents == {"userWrite", "assistantWrite"}
WritesLogged(r) == Len(SelectSeq(trace[r], LAMBDA e : e \in WriteEvents))

RECURSIVE TotalWrites(_)
TotalWrites(rs) ==
    IF rs = {} THEN 0
    ELSE LET r == CHOOSE x \in rs : TRUE IN WritesLogged(r) + TotalWrites(rs \ {r})

\* C1: every request whose handler has returned after opening the upstream stream
\* has written a terminal frame downstream, [DONE] or an error frame.
C1_TerminalFrame ==
    \A r \in Reqs :
        (pc[r] = "done" /\ Len(opened[r]) = 1)
        => \E i \in 1..Len(out[r]) : out[r][i].frame \in {"[DONE]", "error"}

\* C2: a request whose message is blank ends with status 400 in the step that
\* decodes it; that step leaves the credential, the credential file and the message
\* table as they were, and the request never calls AccessToken, AddMessage, Messages
\* or StreamCompletion.
C2_BlankRejected ==
    /\ [](\A r \in Reqs :
            (pc[r] # "start" /\ req[r].valid /\ IsBlank(req[r].message))
            => /\ pc[r] = "done" /\ status[r] = 400
               /\ tok[r] = NoRet /\ trace[r] = <<>>
               /\ opened[r] = <<>> /\ ppc[r] = "none" /\ out[r] = <<>>)
    /\ [][ \A r \in Reqs :
             (pc[r] = "start" /\ pc'[r] # "start" /\ req'[r].valid /\ IsBlank(req'[r].message))
             => UNCHANGED <<tokenVars, dbVars>> ]_vars

C2_Witness ==
    \E r \in Reqs :
        /\ pc[r] = "done" /\ status[r] = 400
        /\ req[r].valid /\ req[r].message = <<" ", "\n">>

\* The scenario of C7: a proper body, a token obtained without a refresh, every
\* store call of the request succeeded, and no other request wrote to the
\* conversation (it was empty and stays the request's own).
EndToEndScenario(r) ==
    /\ req[r].valid /\ ~IsBlank(req[r].message)
    /\ tok[r].err = ""
    /\ \A k \in 1..Len(refreshLog) : refreshLog[k].by # r
    /\ \A i \in 1..Len(trace[r]) : trace[r][i] \in {"token", "history", "open"} \cup WriteEvents
    /\ \A q \in Reqs \ {r} : ConvOf(q) # ConvOf(r) \/ WritesLogged(q) = 0

UserTurn(r) == [role |-> "user", content |-> req[r].message]

UserTurnStored(r) ==
    /\ pc[r] \in {"history", "relay", "checkErr", "persist", "done"}
       => RowsOf(ConvOf(r), "user") =
            {m \in db : m.conv = ConvOf(r) /\ m.role = "user" /\ m.content = req[r].message}
          /\ Cardinality(RowsOf(ConvOf(r), "user")) = 1
    /\ pc[r] \in {"relay", "checkErr", "persist", "done"}
       => /\ Len(opened[r]) = 1
          /\ opened[r][1].messages = <<UserTurn(r)>>
    /\ IsPrefix(FrameTexts(out[r]), DeltaTexts(sent[r]))

C8_AssistantOnlyOnSuccess ==
    /\ \A r \in Reqs :
          Has(trace[r], "assistantWrite")
          => ProducerEnded(r) /\ ~StreamErrored(r) /\ acc[r] # <<>>
    /\ \A m \in db :
          m.role = "assistant"
          => \E r \in Reqs : /\ ConvOf(r) = m.conv /\ m.content = acc[r] /\ acc[r] # <<>>
                             /\ ProducerEnded(r) /\ ~StreamErrored(r)

C8_Witness ==
    \E r, q \in Reqs :
        /\ Has(trace[r], "assistantWrite")
        /\ pc[q] = "done" /\ StreamErrored(q) /\ acc[q] # <<>>
        /\ ~Has(trace[q], "assistantWrite")

\* C9: what a request has done so far is a prefix of token, user write, history
\* load, stream open, assistant write; a failed call ends the list; the history
\* sent upstream holds the user turn already written, with the token obtained.
HandlerOrder == <<"token", "userWrite", "history", "open", "assistantWrite">>

C10_TokenFailure ==
    /\ \A r \in Reqs :
          /\ (tok[r] # NoRet /\ tok[r].err # "")
             => /\ pc[r] = "done" /\ status[r] = 401
                /\ trace[r] = <<"tokenFailed">>
                /\ opened[r] = <<>> /\ out[r] = <<>> /\ ppc[r] = "none"
          /\ status[r] = 401 => tok[r] # NoRet /\ tok[r].err # ""
          /\ status[r] = 400 => tok[r] = NoRet
          /\ status[r] \in {500, 200} => tok[r].err = ""
    /\ Cardinality(db) = TotalWrites(Reqs)

C10_Witness ==
    \E r, q \in Reqs :
        /\ pc[r] = "done" /\ status[r] = 401
        /\ tok[r].err = "refresh token expired or revoked: please re-authenticate"
        /\ status[q] = 200

IsTerminalFrame(f) == f.frame \in {"[DONE]", "error"}

\* C19: the frames a request has written hold at most one terminal frame, [DONE]
\* or an error frame and never both, and nothing is written after it.
C19_OneTerminalFrame ==
    \A r \in Reqs :
        /\ Len(SelectSeq(out[r], IsTerminalFrame)) <= 1
        /\ \A i \in 1..Len(out[r]) : IsTerminalFrame(out[r][i]) => i = Len(out[r])

C19_Witness ==
    \E r, q \in Reqs :
        /\ pc[r] = "done" /\ pc[q] = "done"
        /\ out[r] = <<ContentFrame(WireFrag(1)), ErrorFrame("reading stream")>>
        /\ out[q] = <<ContentFrame(WireFrag(1)), DoneFrame>>

Conversations == {DefaultConversation, "c1"}

\* the calls made for one conversation, in the order they were made
RECURSIVE CallsFor(_, _)
CallsFor(calls, conv) ==
    IF calls = <<>> THEN <<>>
    ELSE (IF Head(calls).conv = conv THEN <<Head(calls)>> ELSE <<>>)
         \o CallsFor(Tail(calls), conv)

\* C27: the table only grows, by rows whose id is above every id in it, and
\* for every conversation Messages returns the rows of exactly the
\* AddMessage calls made for it, in the order of the calls, with strictly
\* increasing ids; this holds through every interleaving of the requests.
C27_AppendOnlyOrdered ==
    [][ /\ db \subseteq db'
        /\ \A m \in db' \ db : \A o \in db : o.id < m.id
        /\ \A conv \in Conversations :
             LET got == Messages(db', conv)
                 put == CallsFor(inserts', conv)
             IN /\ Len(got) = Len(put)
                /\ \A k \in 1..Len(got) :
                     /\ got[k].conv = conv
                     /\ got[k].role = put[k].role
                     /\ got[k].content = put[k].content
                     /\ k > 1 => got[k - 1].id < got[k].id ]_vars

\* two requests have interleaved their writes to two conversations: the
\* rows of each conversation have ids that are not consecutive
C27_Witness ==
    /\ Len(inserts) = 4
    /\ inserts[1].conv = DefaultConversation /\ inserts[2].conv = "c1"
    /\ inserts[3].conv = DefaultConversation /\ inserts[4].conv = "c1"
    /\ Len(Messages(db, "c1")) = 2
    /\ Messages(db, "c1")[1].id = 2 /\ Messages(db, "c1")[2].id = 4

\* the roles of the stored messages of a conversation, in id order
RolesOf(conv) == [i \in 1..Len(Messages(db, conv)) |-> Messages(db, conv)[i].role]

\* a sequence of roles that goes user, assistant, user, assistant, ...
Alternating(roles) ==
    \A i \in 1..Len(roles) : roles[i] = IF i % 2 = 1 THEN "user" ELSE "assistant"

\* a history with two user turns next to each other
TwoUserTurns(messages) ==
    \E i \in 1..(Len(messages) - 1) :
       messages[i].role = "user" /\ messages[i + 1].role = "user"

\* C38: when the requests are processed one at a time, then whenever no request
\* is in flight the stored messages of every conversation alternate user,
\* assistant, user, assistant, ..., and no history sent upstream holds two
\* consecutive user turns.
C38_Alternates ==
    /\ (\A r \in Reqs : pc[r] \in {"start", "done"}) =>
          \A conv \in Conversations : Alternating(RolesOf(conv))
    /\ \A r \in Reqs : \A k \in 1..Len(opened[r]) : ~TwoUserTurns(opened[r][k].messages)

\* C28: a request whose write of the assistant message failed has not
\* presented a successful completion to its client: its frames do not end
\* the stream with [DONE] while carrying no error frame.
C28_AssistantWriteSurfaced ==
    \A r \in Reqs :
        Has(trace[r], "assistantWriteFailed")
            => ~ /\ \E i \in 1..Len(out[r]) : out[r][i] = DoneFrame
                 /\ \A i \in 1..Len(out[r]) : out[r][i].frame # "error"

\* C11: when the caller's cancellation fires after the user turn was written and
\* before the handler has finished, the request writes no assistant message (and
\* the upstream call is cancelled); the user turn stays in the table.
C11_CancelAbandonsWrites ==
    \A r \in Reqs :
        cancelled[r] \in {"history", "relay", "checkErr"}
        => /\ ~Has(trace[r], "assistantWrite")
           /\ \E m \in RowsOf(ConvOf(r), "user") : m.content = req[r].message

StageRank(stage) ==
    CASE stage = "start" -> 0
      [] stage = "token" -> 1
      [] stage = "storeUser" -> 2
      [] stage = "history" -> 3
      [] stage = "relay" -> 4
      [] stage = "checkErr" -> 5
      [] stage = "persist" -> 6
      [] OTHER -> 7

\* the one row a step of request r may add: the user turn when it leaves storeUser,
\* the assistant turn when it leaves persist, both in the request's conversation
MayInsert(r, m) ==
    /\ m.conv = ConvOf(r)
    /\ \/ pc[r] = "storeUser" /\ m.role = "user"
       \/ pc[r] = "persist" /\ m.role = "assistant"

\* C12: a request opens at most one upstream stream and writes at most two rows,
\* one user message and one assistant message in its conversation: the handler
\* never returns to a position it has left, a step adds at most one row and only
\* when the handler leaves storeUser or persist, the stream is opened only when it
\* leaves the history load, and no step removes or changes a row.
C12_SideEffects ==
    /\ [](\A r \in Reqs : Len(opened[r]) <= 1)
    /\ [][ /\ db \subseteq db'
           /\ \A r \in Reqs :
                /\ StageRank(pc'[r]) >= StageRank(pc[r])
                /\ pc'[r] = pc[r] => opened'[r] = opened[r]
                /\ opened'[r] # opened[r] => pc[r] = "history" /\ pc'[r] # "history"
           /\ db' # db =>
                \E r \in Reqs, m \in db' \ db :
                    /\ db' = db \cup {m}
                    /\ pc'[r] # pc[r]
                    /\ \A q \in Reqs \ {r} : pc'[q] = pc[q]
                    /\ MayInsert(r, m) ]_vars

C12_Witness ==
    \E r \in Reqs :
        /\ pc[r] = "done" /\ Len(opened[r]) = 1
        /\ Cardinality(RowsOf(ConvOf(r), "user")) = 1
        /\ Cardinality(RowsOf(ConvOf(r), "assistant")) = 1
        /\ \A q \in Reqs \ {r} : pc[q] = "done" /\ ConvOf(q) # ConvOf(r) /\ status[q] = 200

(***************************************************************************)
(* Claims about chat.StreamCompletion.                                     *)
(***************************************************************************)
IsDone(d) == d.kind = "delta" /\ d.done
IsContent(d) == d.kind = "delta" /\ ~d.done
IsError(d) == d.kind = "error"

Count(seq, Test(_)) == Len(SelectSeq(seq, Test))

\* the contents of the content deltas of a sequence of channel items, in order
ContentsOf(items) ==
    LET ds == SelectSeq(items, IsContent)
    IN [i \in 1..Len(ds) |-> ds[i].content]

ReadFailed == \E i \in 1..Len(produced) : produced[i].err = "reading stream"

\* a frame that carries text for variant v, and the text it carries
IsContentFrame(v, l) ==
    /\ l.prefixed /\ l.json
    /\ IF v = "legacy" THEN l.choices > 0 ELSE l.type = "response.output_text.delta"
FrameText(v, l) == IF v = "legacy" THEN l.content ELSE l.delta

\* the termination signal of variant v
IsTerminator(v, l) ==
    l.prefixed /\ IF v = "legacy" THEN l.done ELSE l.json /\ l.type = "response.completed"

\* a "data: " line whose payload is not JSON (and is not the legacy termination signal)
IsMalformed(v, l) == l.prefixed /\ ~l.json /\ ~IsTerminator(v, l)

\* the index of the first termination signal of a body, 0 when it has none
FirstTerminator(v, lines) ==
    IF \E i \in 1..Len(lines) : IsTerminator(v, lines[i])
    THEN CHOOSE i \in 1..Len(lines) :
            /\ IsTerminator(v, lines[i])
            /\ \A j \in 1..(i - 1) : ~IsTerminator(v, lines[j])
    ELSE 0

\* the texts of the content frames of some lines, in order, empty ones left out
FrameTextsOf(v, lines) ==
    LET fs == SelectSeq(lines, LAMBDA l : IsContentFrame(v, l) /\ FrameText(v, l) # <<>>)
    IN [i \in 1..Len(fs) |-> FrameText(v, fs[i])]

\* C36: in both variants, whenever the delta channel is closed the error
\* channel is closed already and holds the stream's error if the run
\* produced one; and an error is on the error channel from the step that
\* produced it, before either close.
C36_ErrorBeforeClose ==
    /\ xDeltaClosed => xErrClosed
    /\ \A i \in 1..Len(produced) :
          IsError(produced[i]) => xErrCh = <<produced[i]>>
    /\ (xDeltaClosed /\ xErrCh = <<>>) => Count(produced, IsError) = 0

\* the consumer has drained a closed delta channel after a read error: the
\* error waits on the closed error channel
C36_Witness ==
    /\ xDeltaClosed /\ xErrClosed /\ xDeltaCh = <<>>
    /\ Len(received) >= 1
    /\ Len(xErrCh) = 1 /\ xErrCh[1].err = "reading stream"

\* C37: the goroutine started by StreamCompletion ends: eventually it has
\* closed the error channel and the delta channel, whether or not the
\* consumer goes on receiving.
C37_GoroutineEnds == <>(xErrClosed /\ xDeltaClosed)

\* the last line ChatStream scanned is "data: [DONE]"
EndedByDone ==
    /\ scanned >= 1
    /\ upstream.lines[scanned].prefixed /\ upstream.lines[scanned].done
    /\ xpc \in {"closeErr", "closeDelta", "exited"}
    /\ Count(produced, IsError) = 0

\* C40: when ChatText returns, its error is nil only if the stream was
\* ended by "data: [DONE]", and then its text is the concatenation in
\* order of the content frames received; a stream that ended in any other
\* way gives a non-nil error and the empty string.
C40_NilOnlyAfterDone ==
    ChatTextReturned
        => /\ ChatText.err = ""
                => /\ EndedByDone
                   /\ ChatText.text = Flatten(ContentsOf(produced))
           /\ ~EndedByDone => ChatText.err # "" /\ ChatText.text = <<>>

\* C13: a run of the transcoder that has ended put exactly one terminator on its
\* channels, a done delta or an error and not both, and no content delta after
\* the done delta.
C13_OneTerminator ==
    xpc = "exited"
    => /\ Count(produced, IsDone) + Count(produced, IsError) = 1
       /\ \A i, j \in 1..Len(produced) :
              (IsDone(produced[i]) /\ IsContent(produced[j])) => j < i

\* the body is content frames of the legacy variant followed by "data: [DONE]"
\* at line k (whatever follows it)
LegacyFramesThenDone(lines, k) ==
    /\ k \in 1..Len(lines)
    /\ lines[k].prefixed /\ lines[k].done
    /\ \A i \in 1..(k - 1) : IsContentFrame("legacy", lines[i])

\* C14: the legacy variant, given content frames followed by "data: [DONE]" and
\* read without a failure, has emitted when it ends the non-empty contents of the
\* frames in frame order, whose concatenation is the concatenation of all the
\* frames' contents, then exactly one done delta; the delta channel is closed and
\* no line after "[DONE]" was scanned.
C14_LegacyTranscoding ==
    \A k \in 1..MaxWire :
        ( /\ variant = "legacy" /\ xpc = "exited" /\ upstream.status = 200
          /\ ~ReadFailed
          /\ LegacyFramesThenDone(upstream.lines, k) )
        => LET frames == SubSeq(upstream.lines, 1, k - 1)
               texts == [i \in 1..Len(frames) |-> frames[i].content]
           IN /\ produced = [i \in 1..Len(ContentsOf(produced)) |->
                                XDelta(ContentsOf(produced)[i], FALSE)]
                            \o <<XDelta(<<>>, TRUE)>>
              /\ ContentsOf(produced) = SelectSeq(texts, LAMBDA t : t # <<>>)
              /\ Flatten(ContentsOf(produced)) = Flatten(texts)
              /\ xDeltaClosed /\ xErrCh = <<>>
              /\ scanned = k
              /\ received \o xDeltaCh = produced

C14_Witness ==
    /\ variant = "legacy" /\ xpc = "exited"
    /\ upstream.lines = <<ChunkLine(<<"a">>), ChunkLine(<<"b", "c">>), DoneLine>>
    /\ received = <<XDelta(<<"a">>, FALSE), XDelta(<<"b", "c">>, FALSE), XDelta(<<>>, TRUE)>>

\* the lines of a body that come before its first termination signal
BeforeTerminator(v, lines) ==
    IF FirstTerminator(v, lines) = 0 THEN lines
    ELSE SubSeq(lines, 1, FirstTerminator(v, lines) - 1)

TypedRunEnded ==
    /\ variant = "responses" /\ xpc = "exited" /\ upstream.status = 200
    /\ ~ReadFailed

\* C15 as stated: every output_text.delta frame before the termination signal
\* yields one content delta carrying its text.
C15_Original ==
    TypedRunEnded
    => LET fs == SelectSeq(BeforeTerminator("responses", upstream.lines),
                           LAMBDA l : IsContentFrame("responses", l))
       IN ContentsOf(produced) = [i \in 1..Len(fs) |-> fs[i].delta]

\* C15: the responses variant, read without a failure, turns the body "Hello"
\* delta, completed into exactly the content delta "Hello" and the done delta; in
\* general the content deltas are the texts of the output_text.delta frames that
\* carry a non-empty text, in wire order (a frame with an empty text yields
\* nothing), response.completed yields the one done delta, which comes last,
\* and no other line yields a delta or an error.
C15_TypedEvents ==
    TypedRunEnded
    => /\ ContentsOf(produced) =
              FrameTextsOf("responses", BeforeTerminator("responses", upstream.lines))
       /\ Count(produced, IsError) = 0 /\ xErrCh = <<>>
       /\ Count(produced, IsDone) =
              IF FirstTerminator("responses", upstream.lines) = 0 THEN 0 ELSE 1
       /\ \A i \in 1..Len(produced) : IsDone(produced[i]) => i = Len(produced)
       /\ upstream.lines = <<TextDeltaLine(Hello), CompletedLine>>
          => produced = <<XDelta(Hello, FALSE), XDelta(<<>>, TRUE)>>

C15_Witness ==
    /\ TypedRunEnded
    /\ upstream.lines = <<OtherEventLine, TextDeltaLine(Hello), CompletedLine>>
    /\ received = <<XDelta(Hello, FALSE), XDelta(<<>>, TRUE)>>

\* C16: scanning a "data: " line whose payload is not JSON only moves the scanner
\* on: nothing is sent on either channel and the goroutine stays in its loop; so
\* whatever the run has scanned, the content deltas emitted are the texts of the
\* content frames scanned, malformed lines or not, and a run read to its end
\* without a failure has honoured the termination signal of its body.
C16_MalformedSkipped ==
    /\ [][ ( /\ xpc = "scan" /\ scanned' = scanned + 1
             /\ IsMalformed(variant, upstream.lines[scanned + 1]) )
           => ( /\ xpc' = "scan"
                /\ UNCHANGED <<produced, xDeltaCh, xErrCh, xDeltaClosed, xErrClosed>> ) ]_vars
    /\ [](ContentsOf(produced) =
              FrameTextsOf(variant, SubSeq(upstream.lines, 1, scanned)))
    /\ []((xpc = "exited" /\ upstream.status = 200 /\ ~ReadFailed)
            => /\ Count(produced, IsError) = 0
               /\ FirstTerminator(variant, upstream.lines) # 0
                  => /\ scanned = FirstTerminator(variant, upstream.lines)
                     /\ produced[Len(produced)] = XDelta(<<>>, TRUE))

\* a malformed line between two content frames, then the termination signal
C16_Witness ==
    /\ xpc = "exited" /\ ~ReadFailed
    /\ \/ /\ variant = "legacy"
          /\ upstream.lines =
                <<ChunkLine(<<"a">>), MalformedLine, ChunkLine(<<"b", "c">>), DoneLine>>
       \/ /\ variant = "responses"
          /\ upstream.lines =
                <<TextDeltaLine(<<"b", "c">>), MalformedLine, TextDeltaLine(Hello),
                  CompletedLine>>
    /\ Len(received) = 3 /\ received[3] = XDelta(<<>>, TRUE)

\* C17: once the goroutine has seen a response whose status is not 2xx, the only
\* thing it ever puts on its channels is one error carrying the status code and
\* the body text; no delta is emitted or received, no line is scanned, and when it
\* has ended both channels are closed.
C17_NonOKStatus ==
    (upstream.status > 0 /\ upstream.status \notin 200..299 /\ xpc \notin {"none", "do"})
    => /\ produced = <<XError("API error", upstream.status, upstream.text)>>
       /\ xErrCh = produced
       /\ xDeltaCh = <<>> /\ received = <<>> /\ scanned = 0
       /\ requests = 1
       /\ xpc \in {"closeErr", "closeDelta", "exited"}
       /\ xpc = "exited" => xDeltaClosed /\ xErrClosed

C17_Witness ==
    /\ xpc = "exited" /\ upstream.status = 404 /\ upstream.text = "oops"
    /\ xErrCh = <<XError("API error", 404, "oops")>>
    /\ xDeltaClosed /\ xErrClosed

\* C18: a read failure after k content deltas puts one error on the error channel,
\* as the last thing the goroutine emits: the k content deltas come before it, no
\* done delta is emitted, and both channels are closed when the run has ended; the
\* request is made once and never again; and whatever was emitted on the delta
\* channel is received, or still waiting to be received, in the order emitted.
C18_ReadError ==
    /\ requests <= 1
    /\ received \o xDeltaCh = SelectSeq(produced, LAMBDA d : d.kind = "delta")
    /\ ReadFailed
       => /\ produced[Len(produced)] = XError("reading stream", 0, "")
          /\ \A i \in 1..(Len(produced) - 1) : IsContent(produced[i])
          /\ xErrCh = <<XError("reading stream", 0, "")>>
          /\ xpc \in {"closeErr", "closeDelta", "exited"}
          /\ xpc = "exited" => xDeltaClosed /\ xErrClosed

C18_Witness ==
    /\ ReadFailed /\ xpc = "exited" /\ xDeltaClosed
    /\ Len(produced) = 3
    /\ scanned < Len(upstream.lines)
    /\ Len(received) = 2 /\ received = SubSeq(produced, 1, 2)

(***************************************************************************)
(* Claims about the credential file.                                       *)
(***************************************************************************)
LastSave == fileSaves[Len(fileSaves)]

\* the Store was made by NewStore after the last Save, in a later process
ReloadedAfterSave == newStore # Down /\ newStore.loaded /\ fileSaves # <<>>

\* C21: when Save(c) has written the file and a new Store is then made on
\* the same path, the credential the new Store holds equals c in all four
\* fields: accessToken, refreshToken, expiresAt and accountId.
C21_RoundTrip ==
    (ReloadedAfterSave /\ LastSave.ret = "")
        => /\ newStore.cred # NoCred
           /\ newStore.cred.accessToken = LastSave.cred.accessToken
           /\ newStore.cred.refreshToken = LastSave.cred.refreshToken
           /\ newStore.cred.expiresAt = LastSave.cred.expiresAt
           /\ newStore.cred.accountId = LastSave.cred.accountId

\* a credential whose strings need escaping and whose instant is negative
\* has been saved and reloaded
C21_Witness ==
    /\ ReloadedAfterSave /\ LastSave.ret = ""
    /\ LastSave.cred.accessToken = <<"\"">>
    /\ LastSave.cred.refreshToken = <<"<">>
    /\ LastSave.cred.expiresAt < 0
    /\ LastSave.cred.accountId # <<>>
    /\ newStore.cred = LastSave.cred

\* the file holds one whole record
WholeRecord(f) == f.kind = "data" /\ Unmarshal(f.text).ok

\* C22: after a Save that returned nil the Store and the file both hold the
\* credential; after a Save that returned an I/O error the file holds the
\* whole old record or the whole new one, and the Store and the file agree.
C22_SaveAtomic ==
    (newStore # Down /\ ~newStore.loaded /\ fileSaves # <<>>)
        => /\ newStore.cred = LastSave.cred
           /\ LastSave.ret = "" => Load(pathFile).cred = LastSave.cred
           /\ LastSave.ret # ""
                => /\ WholeRecord(LastSave.before) => WholeRecord(pathFile)
                   /\ WholeRecord(pathFile) => Load(pathFile).cred = newStore.cred

\* C29: a Store that NewStore returned without credentials was made over
\* an absent file; an unreadable or undecodable file makes NewStore fail.
C29_LoadFailureSurfaced ==
    (newStore # Down /\ newStore.loaded /\ ~StoreHasCredentials(newStore))
        => loadErr = "absent"


(***************************************************************************)
(* Claims about refreshing the credential.                                 *)
(***************************************************************************)
\* caller c's AccessToken returns from its refresh in this step
ReturnsFromRefresh(c) == tpc[c] = "refresh" /\ tpc'[c] = "done"

\* the provider's answer to the refresh of caller c, once it has returned
AnswerTo(c) ==
    refreshLog'[CHOOSE k \in 1..Len(refreshLog) :
                   refreshLog[k].by = c /\ refreshLog[k].resp = PendingResponse].resp

\* the answer is no token response: a rejection, a transport error, or a
\* body that does not decode
NoTokens(resp) == resp.status # 200 \/ resp.malformed

C24_SuccessfulRefresh ==
    [][ \A c \in Callers :
          (ReturnsFromRefresh(c) /\ ~NoTokens(AnswerTo(c)))
             => /\ cred'.accessToken = AnswerTo(c).accessToken
                /\ cred'.refreshToken =
                      IF AnswerTo(c).refreshToken # "" THEN AnswerTo(c).refreshToken
                      ELSE cred.refreshToken
                /\ cred'.expiresAt = now + AnswerTo(c).expiresIn
                /\ cred'.accountId = cred.accountId
                /\ tret'[c].err = ""
                     => /\ tret'[c].token = AnswerTo(c).accessToken
                        /\ disk' = FileOf(cred')
                        /\ Len(saveLog') = Len(saveLog) + 1 ]_vars

\* a refresh whose answer carried no refresh token has returned the new
\* access token: the old refresh token is kept and the file is rewritten
C24_Witness ==
    \E c \in Callers, k \in 1..Len(refreshLog) :
        /\ tpc[c] = "done" /\ tret[c] = Ok("at1")
        /\ refreshLog[k].by = c /\ refreshLog[k].resp.status = 200
        /\ refreshLog[k].resp.refreshToken = ""
        /\ refreshLog[k].resp.expiresIn = LongLife
        /\ cred.accessToken = "at1" /\ cred.refreshToken = "rt0"
        /\ cred.expiresAt >= LongLife /\ cred.accountId = "acct"
        /\ disk = FileOf(cred)

\* the rejections that call for a new authentication: error invalid_grant,
\* or "revoked" within the description
MustReauthenticate ==
    { Rejection(400, "invalid_grant", <<>>),
      Rejection(400, "invalid_request", <<"T", "o", "k", "e", "n", " ">> \o Revoked \o <<".">>) }

\* C25: a refresh rejected with invalid_grant, or with a description that
\* contains "revoked", gives the caller the re-authenticate error; every
\* other failed refresh (another rejection, a transport error, a body
\* that does not decode) gives the caller an error that differs from it.
C25_ReauthenticateDistinct ==
    \A c \in Callers, k \in 1..Len(refreshLog) :
        (tpc[c] = "done" /\ refreshLog[k].by = c /\ NoTokens(refreshLog[k].resp))
            => /\ tret[c].err # ""
               /\ tret[c].err = ErrReauthenticate
                    <=> refreshLog[k].resp \in MustReauthenticate

\* one caller was told to re-authenticate because of the description,
\* another got a different error from a body that does not decode
C25_Witness ==
    \E c, d \in Callers, k, j \in 1..Len(refreshLog) :
        /\ tpc[c] = "done" /\ refreshLog[k].by = c
        /\ refreshLog[k].resp.error = "invalid_request"
        /\ tret[c].err = ErrReauthenticate
        /\ tpc[d] = "done" /\ refreshLog[j].by = d
        /\ refreshLog[j].resp.malformed
        /\ tret[d].err = "decoding token response"

\* C26: whenever the Store holds a credential, its accessToken and its
\* refreshToken are non-empty, whatever token responses the provider gave.
C26_TokensNonEmpty ==
    cred # NoCred => cred.accessToken # "" /\ cred.refreshToken # ""


\* caller c's AccessToken passes its expiry test in this step, with a
\* credential in the Store
Decides(c) == tpc[c] = "check" /\ tpc'[c] # "check" /\ cred # NoCred

\* caller c sends a refresh exchange in this step
SendsRefresh(c) == tpc'[c] = "refresh" /\ Len(refreshLog') = Len(refreshLog) + 1

\* C33 as stated: AccessToken refreshes if and only if
\* now >= expiresAt - 300, so it refreshes at now = expiresAt - 300.
C33_Original ==
    [][ \A c \in Callers :
          Decides(c) => (SendsRefresh(c) <=> now >= cred.expiresAt - 300) ]_vars

\* C33: AccessToken refreshes if and only if now > expiresAt - 300: it
\* refreshes at now = expiresAt - 299 and returns the stored token without
\* a refresh at now = expiresAt - 300.
C33_RefreshDecision ==
    [][ \A c \in Callers :
          Decides(c)
            => /\ SendsRefresh(c) <=> now > cred.expiresAt - 300
               /\ ~SendsRefresh(c)
                    => /\ tret'[c] = Ok(cred.accessToken)
                       /\ refreshLog' = refreshLog ]_vars

\* a caller got the stored token without a refresh exactly at the margin,
\* and another refreshed one second later
C33_Witness ==
    \E c, d \in Callers :
        /\ tpc[c] = "done" /\ tret[c] = Ok("at0")
        /\ tpc[d] = "refresh"
        /\ Len(refreshLog) = 1 /\ refreshLog[1].by = d
        /\ now = 1 /\ cred.expiresAt = RefreshMargin


\* the refresh exchanges that were sent and are not answered yet
InFlightRefreshes == {k \in 1..Len(refreshLog) : refreshLog[k].resp = PendingResponse}

\* C35: in TokenStoreLive at most one refresh exchange is in flight at any
\* time, and the calls made while the token is in the expired window lead to a
\* single refresh whose token every one of them returns.
C35_SerializedRefresh ==
    /\ Cardinality(InFlightRefreshes) <= 1
    /\ (\A c \in Callers : tsaw[c] /\ tpc[c] = "done" /\ tret[c].err = "")
         => /\ Len(refreshLog) = 1
            /\ \A c \in Callers : tret[c].token = refreshLog[1].resp.accessToken

(***************************************************************************)
(* Claims about the credential store.                                      *)
(***************************************************************************)
Answered(k) == refreshLog[k].resp # PendingResponse

\* every answered refresh was accepted with a lifetime that outlives the margin
\* for as long as the clock runs, and every durable write succeeded
RefreshesAcceptedAndKept ==
    /\ \A k \in 1..Len(refreshLog) :
          Answered(k) => /\ refreshLog[k].resp.status = 200
                         /\ refreshLog[k].resp.expiresIn - RefreshMargin >= MaxNow
    /\ \A k \in 1..Len(saveLog) : saveLog[k].outcome = "ok"

C4_FreshTokenReturned ==
    [][ \A c \in Callers :
          ( /\ tpc[c] = "check" /\ tpc'[c] # "check"
            /\ cred # NoCred
            /\ now < cred.expiresAt - RefreshMargin )
          => /\ tpc'[c] = "done"
             /\ tret'[c] = Ok(cred.accessToken)
             /\ cred' = cred /\ disk' = disk
             /\ refreshLog' = refreshLog /\ saveLog' = saveLog ]_vars

C4_Witness ==
    \E c \in Callers :
        /\ tpc[c] = "done" /\ cred # NoCred
        /\ now > 0 /\ now < cred.expiresAt - RefreshMargin
        /\ tret[c] = Ok(cred.accessToken)
        /\ refreshLog = <<>> /\ saveLog = <<>>

====
